---- MODULE Spec2Model ----
(***************************************************************************)
(* Ledger gateway of Orgappitation: the FastAPI service of                 *)
(* api/modal_app.py (ingest, query, delete, delete-all over one SQLite     *)
(* table), the SQL guards of api/modal_app.py and scripts/text_to_sql.py,  *)
(* and the YAML ingestion client of cli/yaml_to_modal.py.                  *)
(*                                                                         *)
(* Text is modelled as a sequence of one-character strings, so that        *)
(* upper(), strip(), startswith() and the `in` substring test are computed *)
(* character by character.                                                 *)
(***************************************************************************)
EXTENDS Integers, Sequences, FiniteSets, TLC

VARIABLES
    rows,       \* the transactions table: id -> row
    nextId,     \* number of ids generate_id() has handed out
    dbOk,       \* whether sqlite3 can open and use DB_PATH
    serverKey,  \* os.environ FINANZAS_API_KEY on the server ("" = not set)
    pc,         \* per request worker: where its handler stands
    loc,        \* per request worker: the handler's local variables
    cli,        \* the yaml_to_modal client: its place in ingest_batch_from_yaml
    last,       \* the latest answer given, with the request it answers
    deleted,    \* per id: how many DELETE requests for it were answered 200
    chk,        \* harness of the pure functions: input and verdicts
    mig         \* migrate_csv_to_sql: the CSV rows, the loop index, the local table

vars == <<rows, nextId, dbOk, serverKey, pc, loc, cli, last, deleted, chk, mig>>

----------------------------------------------------------------------------
(* Bounds *)

NumWorkers == 2     \* request workers (containers) serving concurrently
MaxIds == 2         \* ids handed out in one run
MaxBatch == 2       \* items of a batch document
MaxFrags == 2       \* fragments concatenated into a guard input

Workers == 1..NumWorkers

----------------------------------------------------------------------------
(* Text *)

\* str.upper() and str.lower() on the letters; other characters stay
UpperOf == [a |-> "A", b |-> "B", c |-> "C", d |-> "D", e |-> "E", f |-> "F",
            g |-> "G", h |-> "H", i |-> "I", j |-> "J", k |-> "K", l |-> "L",
            m |-> "M", n |-> "N", o |-> "O", p |-> "P", q |-> "Q", r |-> "R",
            s |-> "S", t |-> "T", u |-> "U", v |-> "V", w |-> "W", x |-> "X",
            y |-> "Y", z |-> "Z"]
LowerOf == [A |-> "a", B |-> "b", C |-> "c", D |-> "d", E |-> "e", F |-> "f",
            G |-> "g", H |-> "h", I |-> "i", J |-> "j", K |-> "k", L |-> "l",
            M |-> "m", N |-> "n", O |-> "o", P |-> "p", Q |-> "q", R |-> "r",
            S |-> "s", T |-> "t", U |-> "u", V |-> "v", W |-> "w", X |-> "x",
            Y |-> "y", Z |-> "z"]

UpperChar(c) == IF c \in DOMAIN UpperOf THEN UpperOf[c] ELSE c
LowerChar(c) == IF c \in DOMAIN LowerOf THEN LowerOf[c] ELSE c

upper(s) == [i \in 1..Len(s) |-> UpperChar(s[i])]
lower(s) == [i \in 1..Len(s) |-> LowerChar(s[i])]

\* the characters str.strip() removes
Whitespace == {" ", "\t", "\n", "\r"}

\* str.strip(): drop leading and trailing whitespace
strip(s) ==
    LET keep == {i \in 1..Len(s) : s[i] \notin Whitespace}
    IN  IF keep = {} THEN <<>>
        ELSE LET lo == CHOOSE i \in keep : \A j \in keep : i <= j
                 hi == CHOOSE i \in keep : \A j \in keep : j <= i
             IN  SubSeq(s, lo, hi)

\* str.startswith(prefix)
startswith(s, prefix) ==
    /\ Len(prefix) <= Len(s)
    /\ SubSeq(s, 1, Len(prefix)) = prefix

\* Python's `needle in hay` on strings
contains(hay, needle) ==
    \E i \in 1..(Len(hay) - Len(needle) + 1) :
        SubSeq(hay, i, i + Len(needle) - 1) = needle

----------------------------------------------------------------------------
(* Keywords *)

kSELECT   == <<"S","E","L","E","C","T">>
kDROP     == <<"D","R","O","P">>
kDELETE   == <<"D","E","L","E","T","E">>
kINSERT   == <<"I","N","S","E","R","T">>
kUPDATE   == <<"U","P","D","A","T","E">>
kALTER    == <<"A","L","T","E","R">>
kCREATE   == <<"C","R","E","A","T","E">>
kTRUNCATE == <<"T","R","U","N","C","A","T","E">>
kREPLACE  == <<"R","E","P","L","A","C","E">>
kPRAGMA   == <<"P","R","A","G","M","A">>
kATTACH   == <<"A","T","T","A","C","H">>
kDETACH   == <<"D","E","T","A","C","H">>
kWITH     == <<"W","I","T","H">>

\* dangerous_keywords of QueryRequest.validate_sql, in its order
server_dangerous_keywords ==
    << [name |-> "DROP",     text |-> kDROP],
       [name |-> "DELETE",   text |-> kDELETE],
       [name |-> "INSERT",   text |-> kINSERT],
       [name |-> "UPDATE",   text |-> kUPDATE],
       [name |-> "ALTER",    text |-> kALTER],
       [name |-> "CREATE",   text |-> kCREATE],
       [name |-> "TRUNCATE", text |-> kTRUNCATE],
       [name |-> "REPLACE",  text |-> kREPLACE],
       [name |-> "PRAGMA",   text |-> kPRAGMA],
       [name |-> "ATTACH",   text |-> kATTACH],
       [name |-> "DETACH",   text |-> kDETACH] >>

\* dangerous_keywords of is_safe_query, in its order
client_dangerous_keywords ==
    << [name |-> "DELETE",   text |-> kDELETE],
       [name |-> "UPDATE",   text |-> kUPDATE],
       [name |-> "INSERT",   text |-> kINSERT],
       [name |-> "DROP",     text |-> kDROP],
       [name |-> "ALTER",    text |-> kALTER],
       [name |-> "CREATE",   text |-> kCREATE],
       [name |-> "TRUNCATE", text |-> kTRUNCATE],
       [name |-> "REPLACE",  text |-> kREPLACE],
       [name |-> "PRAGMA",   text |-> kPRAGMA],
       [name |-> "ATTACH",   text |-> kATTACH],
       [name |-> "DETACH",   text |-> kDETACH] >>

\* the first keyword of the list found in the text, as the for loop meets it
\* (0 when the loop ends without a hit)
FirstKeywordIn(keywords, text) ==
    LET hits == {i \in 1..Len(keywords) : contains(text, keywords[i].text)}
    IN  IF hits = {} THEN 0
        ELSE CHOOSE i \in hits : \A j \in hits : i <= j

----------------------------------------------------------------------------
(* The guards *)

\* mutant: the SELECT test is missing
validate_sql_noselect(v) ==
    LET v_upper == strip(upper(v))
        hit == FirstKeywordIn(server_dangerous_keywords, v_upper)
    IN  IF hit # 0
        THEN [ok |-> FALSE, error |-> server_dangerous_keywords[hit].name,
              value |-> <<>>]
        ELSE [ok |-> TRUE, error |-> "", value |-> v]

\* mutant: the keywords are looked for in the text as submitted
validate_sql_casesens(v) ==
    LET v_upper == strip(upper(v))
        hit == FirstKeywordIn(server_dangerous_keywords, strip(v))
    IN  IF ~startswith(v_upper, kSELECT)
        THEN [ok |-> FALSE, error |-> "not_select", value |-> <<>>]
        ELSE IF hit # 0
        THEN [ok |-> FALSE, error |-> server_dangerous_keywords[hit].name,
              value |-> <<>>]
        ELSE [ok |-> TRUE, error |-> "", value |-> v]

\* mutant: every string passes
validate_sql_open(v) == [ok |-> TRUE, error |-> "", value |-> v]

\* QueryRequest.validate_sql: ok and the value the model keeps (v itself),
\* or the rule that raised ValueError
validate_sql(v) ==
    LET v_upper == strip(upper(v))
        hit == FirstKeywordIn(server_dangerous_keywords, v_upper)
    IN  IF ~startswith(v_upper, kSELECT)
        THEN [ok |-> FALSE, error |-> "not_select", value |-> <<>>]
        ELSE IF hit # 0
        THEN [ok |-> FALSE, error |-> server_dangerous_keywords[hit].name,
              value |-> <<>>]
        ELSE [ok |-> TRUE, error |-> "", value |-> v]

\* mutant: the text is not trimmed
is_safe_query_nostrip(sql) ==
    LET sql_upper == upper(sql)
    IN  IF ~startswith(sql_upper, kSELECT) THEN FALSE
        ELSE IF FirstKeywordIn(client_dangerous_keywords, sql_upper) # 0 THEN FALSE
        ELSE TRUE

\* mutant: REPLACE is looked for as a word of its own only
is_safe_query_word(sql) ==
    LET sql_upper == strip(upper(sql))
        hit == FirstKeywordIn(client_dangerous_keywords, sql_upper)
    IN  IF ~startswith(sql_upper, kSELECT) THEN FALSE
        ELSE IF hit # 0 /\ client_dangerous_keywords[hit].name # "REPLACE" THEN FALSE
        ELSE TRUE

\* is_safe_query
is_safe_query(sql) ==
    LET sql_upper == strip(upper(sql))
    IN  IF ~startswith(sql_upper, kSELECT) THEN FALSE
        ELSE IF FirstKeywordIn(client_dangerous_keywords, sql_upper) # 0 THEN FALSE
        ELSE TRUE

----------------------------------------------------------------------------
(* Values: what a decoded JSON or YAML scalar can be.  Numbers are integers *)
(* (the code's floats are only compared with 0 and copied).                 *)

Null    == [t |-> "null", n |-> 0, s |-> ""]
Absent  == [t |-> "absent", n |-> 0, s |-> ""]     \* key not in the dict
Num(k)  == [t |-> "num",  n |-> k, s |-> ""]
Str(x)  == [t |-> "str",  n |-> 0, s |-> x]
Bool(b) == [t |-> "bool", n |-> IF b THEN 1 ELSE 0, s |-> ""]

\* dict.get(k) with Absent for a missing key
Get(d, k) == IF k \in DOMAIN d THEN d[k] ELSE Absent

\* Python truthiness of a value: None, 0, False and "" are falsy
Truthy(v) ==
    CASE v.t = "num"  -> v.n # 0
      [] v.t = "bool" -> v.n # 0
      [] v.t = "str"  -> v.s # ""
      [] OTHER        -> FALSE

\* the decimal texts the model's inputs use, with the number each denotes
NumeralTexts == {"-1", "0", "1", "2"}
NumeralValue(x) ==
    CASE x = "-1" -> 0 - 1
      [] x = "0"  -> 0
      [] x = "1"  -> 1
      [] x = "2"  -> 2
      [] OTHER    -> 0

NumeralOf(k) ==
    CASE k = 0 - 1 -> "-1"
      [] k = 0     -> "0"
      [] k = 1     -> "1"
      [] k = 2     -> "2"
      [] OTHER     -> "0"

----------------------------------------------------------------------------
(* TransactionCreate: the pydantic model of the /ingest body *)

Currencies == {"ARS", "USD", "CAD", "ETH", "BTC"}

TextFields == {"expense_type", "category", "payment_method", "money_source",
               "description", "notes", "date"}

\* a float field in lax mode: a number, a bool, or a numeric string
FloatField(v) ==
    CASE v.t = "num"  -> [ok |-> TRUE, n |-> v.n]
      [] v.t = "bool" -> [ok |-> TRUE, n |-> v.n]
      [] v.t = "str" /\ v.s \in NumeralTexts -> [ok |-> TRUE, n |-> NumeralValue(v.s)]
      [] OTHER        -> [ok |-> FALSE, n |-> 0]

\* TransactionCreate.validate_currency: whether v passes
validate_currency(v) ==
    ~(Truthy(v) /\ v.s \notin Currencies)

\* amount: float = Field(..., gt=0)
AmountOk(v) == FloatField(v).ok /\ FloatField(v).n > 0

\* Optional[float] = Field(None, gt=0)
OptFloatOk(v) ==
    \/ v.t \in {"absent", "null"}
    \/ FloatField(v).ok /\ FloatField(v).n > 0

\* Optional[str] = Field(None)
OptStrOk(v) == v.t \in {"absent", "null", "str"}

\* the strings a bool field takes in lax mode (compared in lower case)
TrueTexts  == {"1", "on", "t", "true", "y", "yes"}
FalseTexts == {"0", "off", "f", "false", "n", "no"}

\* bool = Field(default=False) in lax mode: a bool, the numbers 0 and 1, or
\* one of the strings above
BoolOk(v) ==
    \/ v.t \in {"absent", "bool"}
    \/ v.t = "num" /\ v.n \in {0, 1}
    \/ v.t = "str" /\ v.s \in TrueTexts \cup FalseTexts

BoolValue(v) ==
    IF v.t = "str" THEN v.s \in TrueTexts ELSE v.n = 1

\* mutant: gt=0 is missing from the amount field
TransactionCreateOk_nogt(body) ==
    /\ FloatField(Get(body, "amount")).ok
    /\ Get(body, "currency").t \in {"absent", "str"}
    /\ validate_currency(Get(body, "currency"))
    /\ BoolOk(Get(body, "is_income"))
    /\ \A f \in TextFields : OptStrOk(Get(body, f))
    /\ OptFloatOk(Get(body, "exchange_rate"))
    /\ OptFloatOk(Get(body, "converted_amount"))
    /\ OptStrOk(Get(body, "converted_currency"))
    /\ validate_currency(Get(body, "converted_currency"))

\* whether the body validates as a TransactionCreate (otherwise FastAPI
\* answers 422 without calling the handler)
TransactionCreateOk(body) ==
    /\ AmountOk(Get(body, "amount"))
    /\ Get(body, "currency").t \in {"absent", "str"}
    /\ validate_currency(Get(body, "currency"))
    /\ BoolOk(Get(body, "is_income"))
    /\ \A f \in TextFields : OptStrOk(Get(body, f))
    /\ OptFloatOk(Get(body, "exchange_rate"))
    /\ OptFloatOk(Get(body, "converted_amount"))
    /\ OptStrOk(Get(body, "converted_currency"))
    /\ validate_currency(Get(body, "converted_currency"))

\* an optional field of the validated model: None when not supplied
OptValue(v) == IF v.t = "absent" THEN Null ELSE v

OptFloatValue(v) == IF v.t \in {"absent", "null"} THEN Null ELSE Num(FloatField(v).n)

\* the validated TransactionCreate, defaults filled in
TransactionCreate(body) ==
    [ amount             |-> Num(FloatField(Get(body, "amount")).n),
      currency           |-> IF "currency" \in DOMAIN body THEN body["currency"]
                             ELSE Str("ARS"),
      expense_type       |-> OptValue(Get(body, "expense_type")),
      category           |-> OptValue(Get(body, "category")),
      is_income          |-> IF "is_income" \in DOMAIN body
                             THEN BoolValue(body["is_income"]) ELSE FALSE,
      payment_method     |-> OptValue(Get(body, "payment_method")),
      money_source       |-> OptValue(Get(body, "money_source")),
      description        |-> OptValue(Get(body, "description")),
      notes              |-> OptValue(Get(body, "notes")),
      exchange_rate      |-> OptFloatValue(Get(body, "exchange_rate")),
      converted_amount   |-> OptFloatValue(Get(body, "converted_amount")),
      converted_currency |-> OptValue(Get(body, "converted_currency")),
      date               |-> OptValue(Get(body, "date")) ]

----------------------------------------------------------------------------
(* The transactions table and what sqlite3 does with a statement *)

Ids == 1..MaxIds

Digits == <<"1","2","3","4","5","6","7","8","9">>

\* the text of an id inside a statement
IdText(id) == <<Digits[id]>>

NoRows == [i \in {} |-> Null]

\* mutant: the date is bound as it came, without the fallback
InsertedRow_nodate(transaction_id, transaction, now) ==
    [ id                 |-> transaction_id,
      date               |-> transaction.date,
      amount             |-> transaction.amount,
      currency           |-> transaction.currency,
      expense_type       |-> transaction.expense_type,
      category           |-> transaction.category,
      is_income          |-> IF transaction.is_income THEN 1 ELSE 0,
      payment_method     |-> transaction.payment_method,
      money_source       |-> transaction.money_source,
      description        |-> transaction.description,
      notes              |-> transaction.notes,
      exchange_rate      |-> transaction.exchange_rate,
      converted_amount   |-> transaction.converted_amount,
      converted_currency |-> transaction.converted_currency ]

\* the row ingest_transaction binds to the INSERT: date falls back to the
\* current time, is_income is stored as 1 or 0
InsertedRow(transaction_id, transaction, now) ==
    [ id                 |-> transaction_id,
      date               |-> IF Truthy(transaction.date) THEN transaction.date
                             ELSE Str(now),
      amount             |-> transaction.amount,
      currency           |-> transaction.currency,
      expense_type       |-> transaction.expense_type,
      category           |-> transaction.category,
      is_income          |-> IF transaction.is_income THEN 1 ELSE 0,
      payment_method     |-> transaction.payment_method,
      money_source       |-> transaction.money_source,
      description        |-> transaction.description,
      notes              |-> transaction.notes,
      exchange_rate      |-> transaction.exchange_rate,
      converted_amount   |-> transaction.converted_amount,
      converted_currency |-> transaction.converted_currency ]

\* the fallback schema's constraints on a row: NOT NULL columns and
\* CHECK(amount > 0); the PRIMARY KEY is checked against the table
SchemaAccepts(table, row) ==
    /\ row.id \notin DOMAIN table
    /\ row.date.t # "null"
    /\ row.amount.t = "num" /\ row.amount.n > 0
    /\ row.currency.t # "null"

tSELECT_ALL == kSELECT \o <<" ","*"," ","F","R","O","M"," ",
                 "T","R","A","N","S","A","C","T","I","O","N","S">>
tWHERE_ID   == <<" ","W","H","E","R","E"," ","I","D"," ","="," ","'">>
tDROP_TABLE == kDROP \o <<" ","T","A","B","L","E"," ",
                 "T","R","A","N","S","A","C","T","I","O","N","S">>
tDELETE_FROM == kDELETE \o <<" ","F","R","O","M"," ",
                 "T","R","A","N","S","A","C","T","I","O","N","S">>

\* "SELECT * FROM transactions WHERE id = '<id>'" as test_full_flow writes it
SelectById(id) == tSELECT_ALL \o tWHERE_ID \o IdText(id) \o <<"'">>

\* conn.execute(sql) on a fresh connection that is closed without commit.
\* SQL keywords and names are case-insensitive and surrounding whitespace is
\* ignored.  A SELECT reads; a DELETE opens an implicit transaction that the
\* close rolls back; DROP TABLE is DDL, runs in autocommit and stays; any
\* other text of the model's inputs is a syntax error.
ExecuteSql(sql, table) ==
    LET text == strip(upper(sql))
    IN  IF text = tSELECT_ALL
        THEN [ok |-> TRUE, result |-> {table[i] : i \in DOMAIN table},
              table |-> table]
        ELSE IF \E id \in Ids : text = SelectById(id)
        THEN LET id == CHOOSE i \in Ids : text = SelectById(i)
             IN  [ok |-> TRUE,
                  result |-> {table[i] : i \in DOMAIN table \cap {id}},
                  table |-> table]
        ELSE IF text = tDELETE_FROM
        THEN [ok |-> TRUE, result |-> {}, table |-> table]
        ELSE IF text = tDROP_TABLE
        THEN [ok |-> TRUE, result |-> {}, table |-> NoRows]
        ELSE [ok |-> FALSE, result |-> {}, table |-> table]

----------------------------------------------------------------------------
(* YAML.  A YAML mapping text is modelled as key -> scalar token, a token   *)
(* being its characters and whether they are quoted.                        *)

Plain(x)  == [q |-> FALSE, x |-> x]
Quoted(x) == [q |-> TRUE,  x |-> x]

YamlNullTexts  == {"", "~", "null", "Null", "NULL"}
YamlTrueTexts  == {"true", "True", "TRUE", "yes", "Yes", "YES", "on", "On", "ON"}
YamlFalseTexts == {"false", "False", "FALSE", "no", "No", "NO", "off", "Off", "OFF"}

\* yaml.safe_load of one scalar: a quoted scalar is a string, a plain one is
\* resolved to null, bool, number or string
LoadScalar(tok) ==
    IF tok.q THEN Str(tok.x)
    ELSE IF tok.x \in YamlNullTexts THEN Null
    ELSE IF tok.x \in YamlTrueTexts THEN Bool(TRUE)
    ELSE IF tok.x \in YamlFalseTexts THEN Bool(FALSE)
    ELSE IF tok.x \in NumeralTexts THEN Num(NumeralValue(tok.x))
    ELSE Str(tok.x)

\* mutant: strings are never quoted
DumpScalar_plain(v) ==
    CASE v.t = "null" -> Plain("null")
      [] v.t = "bool" -> Plain(IF v.n = 1 THEN "true" ELSE "false")
      [] v.t = "num"  -> Plain(NumeralOf(v.n))
      [] OTHER        -> Plain(v.s)

\* yaml.dump of one scalar: a string that would resolve to something else is
\* quoted
DumpScalar(v) ==
    CASE v.t = "null" -> Plain("null")
      [] v.t = "bool" -> Plain(IF v.n = 1 THEN "true" ELSE "false")
      [] v.t = "num"  -> Plain(NumeralOf(v.n))
      [] OTHER        -> IF LoadScalar(Plain(v.s)) = Str(v.s) THEN Plain(v.s)
                         ELSE Quoted(v.s)

\* a YAML document is [kind, map, items]: kind "empty" (no content), "map"
\* (one mapping, in map), "list" (a sequence of mappings, in items) or
\* "scalar"; a mapping may hold a sequence under one key (items, under seqkey)
YamlMap(m)          == [kind |-> "map", map |-> m, seqkey |-> "", items |-> <<>>]
YamlList(items)     == [kind |-> "list", map |-> NoRows, seqkey |-> "", items |-> items]
YamlKeyed(k, items) == [kind |-> "map", map |-> NoRows, seqkey |-> k, items |-> items]
YamlEmpty           == [kind |-> "empty", map |-> NoRows, seqkey |-> "", items |-> <<>>]
YamlScalar          == [kind |-> "scalar", map |-> NoRows, seqkey |-> "", items |-> <<>>]

\* yaml.safe_load of a mapping text
LoadMap(m) == [k \in DOMAIN m |-> LoadScalar(m[k])]

\* yaml.dump of a mapping
DumpMap(d) == [k \in DOMAIN d |-> DumpScalar(d[k])]

\* field_mapping of convert_yaml_to_json, in its order
field_mapping ==
    << <<"monto", "amount">>,
       <<"moneda", "currency">>,
       <<"tipo_gasto", "expense_type">>,
       <<"metodo_pago", "payment_method">>,
       <<"fuente_dinero", "money_source">>,
       <<"descripcion", "description">>,
       <<"categoria", "category">>,
       <<"notas", "notes">>,
       <<"es_ingreso", "is_income">>,
       <<"tasa_cambio", "exchange_rate">>,
       <<"monto_convertido", "converted_amount">>,
       <<"moneda_convertida", "converted_currency">>,
       <<"fecha", "date">> >>

MoneyFields == {"amount", "exchange_rate", "converted_amount"}

\* Python's float(value): a number, a bool or a numeric string
float(v) ==
    CASE v.t = "num"  -> [ok |-> TRUE, n |-> v.n]
      [] v.t = "bool" -> [ok |-> TRUE, n |-> v.n]
      [] v.t = "str" /\ v.s \in NumeralTexts -> [ok |-> TRUE, n |-> NumeralValue(v.s)]
      [] OTHER        -> [ok |-> FALSE, n |-> 0]

\* the body of both loops of convert_yaml_to_json for one key: the entry of
\* json_data it writes (<<>> when it writes none), or the float() failure
ConvertValue(english_key, value) ==
    IF english_key \in MoneyFields
    THEN IF value.t = "null" THEN [ok |-> TRUE, set |-> <<>>]
         ELSE IF float(value).ok
              THEN [ok |-> TRUE, set |-> <<Num(float(value).n)>>]
              ELSE [ok |-> FALSE, set |-> <<>>]
    ELSE IF english_key = "is_income"
    THEN [ok |-> TRUE, set |-> <<Bool(Truthy(value))>>]
    ELSE [ok |-> TRUE, set |-> <<value>>]

\* what the two loops do for the i-th field: the Spanish key first, then the
\* English key when json_data has no entry for it yet
ConvertField(data, i) ==
    LET spanish_key == field_mapping[i][1]
        english_key == field_mapping[i][2]
        first == IF spanish_key \in DOMAIN data
                 THEN ConvertValue(english_key, data[spanish_key])
                 ELSE [ok |-> TRUE, set |-> <<>>]
    IN  IF ~first.ok THEN first
        ELSE IF english_key \in DOMAIN data /\ first.set = <<>>
        THEN ConvertValue(english_key, data[english_key])
        ELSE first

\* convert_yaml_to_json on the loaded document: ok and json_data, or the
\* ValueError
convert_yaml_to_json(doc) ==
    IF doc.kind = "empty" \/ (doc.kind = "map" /\ DOMAIN doc.map = {} /\ doc.seqkey = "")
    THEN [ok |-> FALSE, error |-> "empty", json |-> NoRows]
    ELSE IF doc.kind # "map"
    THEN [ok |-> FALSE, error |-> "convert", json |-> NoRows]
    ELSE
    LET data == LoadMap(doc.map)
        n == Len(field_mapping)
        set == {i \in 1..n : ConvertField(data, i).ok /\ ConvertField(data, i).set # <<>>}
        keys == {field_mapping[i][2] : i \in set}
        json_data == [k \in keys |->
                        LET i == CHOOSE j \in set : field_mapping[j][2] = k
                        IN  ConvertField(data, i).set[1]]
        defaults == [k \in {"currency", "is_income"} \ keys |->
                        IF k = "currency" THEN Str("ARS") ELSE Bool(FALSE)]
    IN  IF \E i \in 1..n : ~ConvertField(data, i).ok
        THEN [ok |-> FALSE, error |-> "convert", json |-> NoRows]
        ELSE IF "amount" \notin keys
        THEN [ok |-> FALSE, error |-> "amount", json |-> NoRows]
        ELSE [ok |-> TRUE, error |-> "", json |-> json_data @@ defaults]

\* the fields the message of each ValueError of convert_yaml_to_json names:
\* "Debe especificar al menos 'monto' o 'amount'" names the amount, "YAML
\* vacío" and "Error al convertir YAML: <the float() message>" name no field
ErrorNames(error) == IF error = "amount" THEN {"amount"} ELSE {}

----------------------------------------------------------------------------
(* convert_csv_to_sql_format.  A CSV row is column -> cell, the cells being *)
(* the strings csv.DictReader gives.                                        *)

\* mapping of convert_csv_to_sql_format, in its order
csv_mapping ==
    << <<"id", "id">>,
       <<"fecha", "date">>,
       <<"monto", "amount">>,
       <<"moneda", "currency">>,
       <<"tipo_gasto", "expense_type">>,
       <<"metodo_pago", "payment_method">>,
       <<"fuente_dinero", "money_source">>,
       <<"descripcion", "description">>,
       <<"categoria", "category">>,
       <<"notas", "notes">>,
       <<"es_ingreso", "is_income">>,
       <<"tasa_cambio", "exchange_rate">>,
       <<"monto_convertido", "converted_amount">>,
       <<"moneda_convertida", "converted_currency">> >>

\* str.lower of a cell: the cells with capital letters that the inputs use,
\* every other cell of the inputs being in lower case already
LowerText(x) ==
    CASE x \in {"True", "TRUE", "tRuE"}  -> "true"
      [] x \in {"Yes", "YES"}            -> "yes"
      [] x \in {"False", "FALSE"}        -> "false"
      [] x \in {"No", "NO"}              -> "no"
      [] OTHER                           -> x

\* the entry of sql_row the loop writes for a cell that is not empty
ConvertCell(sql_key, value) ==
    IF sql_key \in MoneyFields
    THEN IF float(value).ok THEN Num(float(value).n) ELSE Null
    ELSE IF sql_key = "is_income"
    THEN Bool(LowerText(value.s) \in {"true", "1", "yes"})
    ELSE IF Truthy(value) THEN value ELSE Null

\* convert_csv_to_sql_format: ok and sql_row, or the ValueError
convert_csv_to_sql_format(csv_row) ==
    LET n == Len(csv_mapping)
        set == {i \in 1..n : /\ csv_mapping[i][1] \in DOMAIN csv_row
                              /\ Truthy(csv_row[csv_mapping[i][1]])}
        keys == {csv_mapping[i][2] : i \in set}
        sql_row == [k \in keys |->
                      LET i == CHOOSE j \in set : csv_mapping[j][2] = k
                      IN  ConvertCell(k, csv_row[csv_mapping[i][1]])]
        currency == IF "currency" \notin keys \/ ~Truthy(sql_row["currency"])
                    THEN [k \in {"currency"} |-> Str("ARS")]
                    ELSE NoRows
        is_income == IF "is_income" \notin keys
                     THEN [k \in {"is_income"} |-> Bool(FALSE)]
                     ELSE NoRows
    IN  IF "amount" \notin keys \/ ~Truthy(sql_row["amount"])
        THEN [ok |-> FALSE, error |-> "amount", row |-> NoRows]
        ELSE [ok |-> TRUE, error |-> "", row |-> currency @@ is_income @@ sql_row]

\* the field the message of the ValueError of convert_csv_to_sql_format
\* names: "Transacción sin monto válido: <id>"
CsvErrorNames(error) == IF error = "amount" THEN {"amount"} ELSE {}

----------------------------------------------------------------------------
(* The gateway: answers, authentication, the handlers *)

NoHeader == "<no X-API-Key header>"

NoLoc == [id |-> 0, count |-> 0]

\* the client inside ingest_batch_from_yaml: its position, api key, the items,
\* the loop index and the results so far; before is the row count when the
\* batch began (kept for the properties only)
NoCli == [pc |-> "idle", key |-> "", transactions |-> <<>>, i |-> 0, results |-> <<>>,
          before |-> 0]

\* an answer: the operation, the credential and the input it was asked with,
\* the HTTP status, the id and the count it carries, and further output
Last(op, key, in, status, id, n, out) ==
    [op |-> op, key |-> key, in |-> in, status |-> status, id |-> id, n |-> n,
     out |-> out]
NoLast == Last("none", "", <<>>, 0, 0, 0, <<>>)

NoChk == [fn |-> "none"]

\* no migration is running: no CSV rows read, nothing in the local table
NoMig == [pc |-> "idle", csv |-> <<>>, schema |-> "none", i |-> 0, table |-> <<>>,
          inserted |-> 0, errors |-> 0]

\* mutant: a server without a configured key compares like any other
verify_api_key_lax(x_api_key) ==
    LET expected_key == serverKey
    IN  IF x_api_key = NoHeader THEN 422
        ELSE IF x_api_key # expected_key THEN 401
        ELSE 200

\* verify_api_key: 200 when the dependency returns, else the status of the
\* HTTPException (422 when FastAPI finds no X-API-Key header)
verify_api_key(x_api_key) ==
    LET expected_key == serverKey
    IN  IF x_api_key = NoHeader THEN 422
        ELSE IF expected_key = "" THEN 500
        ELSE IF x_api_key # expected_key THEN 401
        ELSE 200

\* mutant: the exception of a failed insert is swallowed
ingest_transaction_swallow(x_api_key, body, now) ==
    LET auth == verify_api_key(x_api_key)
        transaction_id == nextId + 1
        row == InsertedRow(transaction_id, TransactionCreate(body), now)
    IN  IF auth \in {401, 500}
        THEN [status |-> auth, id |-> 0, table |-> rows]
        ELSE IF auth = 422 \/ ~TransactionCreateOk(body)
        THEN [status |-> 422, id |-> 0, table |-> rows]
        ELSE IF ~dbOk \/ ~SchemaAccepts(rows, row)
        THEN [status |-> 200, id |-> transaction_id, table |-> rows]
        ELSE [status |-> 200, id |-> transaction_id,
              table |-> rows @@ (transaction_id :> row)]

\* POST /ingest served in one piece (one INSERT and its commit): the status,
\* the id answered and the table afterwards.  A uuid4 is modelled as the next
\* unused id; one drawn for an insert that fails is never seen again.
ingest_transaction(x_api_key, body, now) ==
    LET auth == verify_api_key(x_api_key)
        transaction_id == nextId + 1
        row == InsertedRow(transaction_id, TransactionCreate(body), now)
    IN  IF auth \in {401, 500}
        THEN [status |-> auth, id |-> 0, table |-> rows]
        ELSE IF auth = 422 \/ ~TransactionCreateOk(body)
        THEN [status |-> 422, id |-> 0, table |-> rows]
        ELSE IF ~dbOk \/ ~SchemaAccepts(rows, row)
        THEN [status |-> 500, id |-> 0, table |-> rows]
        ELSE [status |-> 200, id |-> transaction_id,
              table |-> rows @@ (transaction_id :> row)]

\* POST /query served in one piece: the status, the text handed to
\* conn.execute (<<>> when none was), the result and the table afterwards
execute_query(x_api_key, sql) ==
    LET auth == verify_api_key(x_api_key)
        query == validate_sql(sql)
        run == ExecuteSql(query.value, rows)
    IN  IF auth \in {401, 500}
        THEN [status |-> auth, executed |-> <<>>, result |-> {}, table |-> rows]
        ELSE IF auth = 422 \/ ~query.ok
        THEN [status |-> 422, executed |-> <<>>, result |-> {}, table |-> rows]
        ELSE IF ~dbOk
        THEN [status |-> 400, executed |-> <<>>, result |-> {}, table |-> rows]
        ELSE IF ~run.ok
        THEN [status |-> 400, executed |-> <<query.value>>, result |-> {},
              table |-> run.table]
        ELSE [status |-> 200, executed |-> <<query.value>>, result |-> run.result,
              table |-> run.table]

\* mutant: the row is not looked for before the DELETE
delete_transaction_select_blind(x_api_key, transaction_id) ==
    LET auth == verify_api_key(x_api_key)
    IN  IF auth # 200 THEN auth
        ELSE IF ~dbOk THEN 500
        ELSE 200

\* delete_transaction up to its SELECT: 200 when the row was found and the
\* handler goes on to the DELETE, else the status it answers with
delete_transaction_select(x_api_key, transaction_id) ==
    LET auth == verify_api_key(x_api_key)
    IN  IF auth # 200 THEN auth
        ELSE IF ~dbOk THEN 500
        ELSE IF transaction_id \notin DOMAIN rows THEN 404
        ELSE 200

\* mutant: the confirmation is compared without regard to case
delete_all_transactions_count_anycase(x_api_key, confirm) ==
    LET auth == verify_api_key(x_api_key)
    IN  IF auth # 200 THEN auth
        ELSE IF confirm \notin {"DELETE_ALL", "delete_all"} THEN 400
        ELSE IF ~dbOk THEN 500
        ELSE 200

\* delete_all_transactions up to its SELECT COUNT(*): 200 when the handler
\* goes on to the DELETE, else the status it answers with
delete_all_transactions_count(x_api_key, confirm) ==
    LET auth == verify_api_key(x_api_key)
    IN  IF auth # 200 THEN auth
        ELSE IF confirm # "DELETE_ALL" THEN 400
        ELSE IF ~dbOk THEN 500
        ELSE 200

\* SUM over the rows of the table of the term f gives for each
RECURSIVE SumOf(_, _)
SumOf(f, S) ==
    IF S = {} THEN 0
    ELSE LET x == CHOOSE y \in S : TRUE
         IN  f[x] + SumOf(f, S \ {x})

\* SQL's SUM: NULL over no rows
SqlSum(f) == IF DOMAIN f = {} THEN Null ELSE Num(SumOf(f, DOMAIN f))

\* Python's `value or 0`
OrZero(v) == IF Truthy(v) THEN v.n ELSE 0

\* mutant: the balance adds the expenses
StatsResponse_plus(table) ==
    LET total_income == SqlSum([id \in DOMAIN table |->
                            IF table[id].is_income = 1 THEN table[id].amount.n ELSE 0])
        total_expenses == SqlSum([id \in DOMAIN table |->
                            IF table[id].is_income = 0 THEN table[id].amount.n ELSE 0])
    IN  [ total_income       |-> OrZero(total_income),
          total_expenses     |-> OrZero(total_expenses),
          balance            |-> OrZero(total_income) + OrZero(total_expenses),
          total_transactions |-> Cardinality(DOMAIN table),
          expense_count      |-> Cardinality({id \in DOMAIN table : table[id].is_income = 0}),
          income_count       |-> Cardinality({id \in DOMAIN table : table[id].is_income = 1}) ]

\* the SELECT of get_stats over the table and the StatsResponse built from
\* its row
StatsResponse(table) ==
    LET total_income == SqlSum([id \in DOMAIN table |->
                            IF table[id].is_income = 1 THEN table[id].amount.n ELSE 0])
        total_expenses == SqlSum([id \in DOMAIN table |->
                            IF table[id].is_income = 0 THEN table[id].amount.n ELSE 0])
        balance == SqlSum([id \in DOMAIN table |->
                            IF table[id].is_income = 1 THEN table[id].amount.n
                            ELSE 0 - table[id].amount.n])
    IN  [ total_income       |-> OrZero(total_income),
          total_expenses     |-> OrZero(total_expenses),
          balance            |-> OrZero(balance),
          total_transactions |-> Cardinality(DOMAIN table),
          expense_count      |-> Cardinality({id \in DOMAIN table : table[id].is_income = 0}),
          income_count       |-> Cardinality({id \in DOMAIN table : table[id].is_income = 1}) ]

NoStats == [total_income |-> 0, total_expenses |-> 0, balance |-> 0,
            total_transactions |-> 0, expense_count |-> 0, income_count |-> 0]

\* GET /stats served in one piece: the status and the response
get_stats(x_api_key) ==
    LET auth == verify_api_key(x_api_key)
    IN  IF auth # 200 THEN [status |-> auth, stats |-> NoStats]
        ELSE IF ~dbOk THEN [status |-> 500, stats |-> NoStats]
        ELSE [status |-> 200, stats |-> StatsResponse(rows)]

\* the date texts of the stored rows, in the order SQLite compares TEXT
DateTexts == <<"2026-01-01", "2026-01-02", "2026-11-02T10:00:00">>

DateRank(date) == CHOOSE i \in DOMAIN DateTexts : DateTexts[i] = date.s

\* the orders ORDER BY date DESC can give the rows in: rows of one date come
\* in either order
DateDescOrders(table) ==
    {o \in [1..Cardinality(DOMAIN table) -> DOMAIN table] :
        /\ \A i, j \in DOMAIN o : i # j => o[i] # o[j]
        /\ \A i, j \in DOMAIN o :
              i < j => DateRank(table[o[i]].date) >= DateRank(table[o[j]].date)}

\* LIMIT ?: the first rows of the order, all of them when the limit is
\* negative
SqlLimit(o, limit) ==
    IF limit < 0 \/ limit >= Len(o) THEN o ELSE SubSeq(o, 1, limit)

\* the dict get_recent_transactions builds from a row
RecentEntry(row) ==
    [ id             |-> row.id,
      date           |-> row.date,
      amount         |-> row.amount,
      currency       |-> row.currency,
      expense_type   |-> row.expense_type,
      category       |-> row.category,
      is_income      |-> row.is_income # 0,
      payment_method |-> row.payment_method,
      money_source   |-> row.money_source,
      description    |-> row.description ]

\* GET /transactions/recent?limit=... served in one piece: the answers it can
\* give, each a status, the count and the transactions
get_recent_transactions(x_api_key, limit) ==
    LET auth == verify_api_key(x_api_key)
    IN  IF auth # 200
        THEN {[status |-> auth, count |-> 0, transactions |-> <<>>]}
        ELSE IF ~dbOk
        THEN {[status |-> 500, count |-> 0, transactions |-> <<>>]}
        ELSE {LET ids == SqlLimit(o, limit)
              IN  [status |-> 200, count |-> Len(ids),
                   transactions |-> [i \in DOMAIN ids |-> RecentEntry(rows[ids[i]])]] :
                o \in DateDescOrders(rows)}

\* send_to_modal after convert_yaml_to_json, as ingest_from_yaml runs them:
\* "ok", "ValueError" (conversion, or no api key configured) or "RuntimeError"
\* (the request failed), with the HTTP status and the id
ingest_from_yaml(doc, api_key, now) ==
    LET conv == convert_yaml_to_json(doc)
        http == ingest_transaction(api_key, conv.json, now)
    IN  IF ~conv.ok
        THEN [outcome |-> "ValueError", error |-> conv.error, status |-> 0,
              id |-> 0, table |-> rows]
        ELSE IF api_key = ""
        THEN [outcome |-> "ValueError", error |-> "api_key", status |-> 0,
              id |-> 0, table |-> rows]
        ELSE IF http.status # 200
        THEN [outcome |-> "RuntimeError", error |-> "http", status |-> http.status,
              id |-> 0, table |-> rows]
        ELSE [outcome |-> "ok", error |-> "", status |-> 200, id |-> http.id,
              table |-> http.table]

----------------------------------------------------------------------------
(* Inputs *)

Credentials == {"k", "bad", NoHeader}

\* the credentials, an empty X-API-Key header among them
AuthKeys == Credentials \cup {""}

\* what datetime.now().isoformat() can give
Times == {"2026-11-02T10:00:00"}

\* JSON bodies posted to /ingest
Bodies ==
    { [amount |-> Num(1)],
      [amount |-> Num(2), currency |-> Str("USD"), is_income |-> Bool(TRUE),
       description |-> Str("x"), date |-> Str("2026-01-01")],
      [amount |-> Num(0)],
      [amount |-> Num(0 - 1), currency |-> Str("USD")],
      [description |-> Str("x")],
      [amount |-> Null],
      [amount |-> Num(1), currency |-> Str("XXX")],
      [amount |-> Num(1), exchange_rate |-> Num(0)],
      [amount |-> Num(1), converted_currency |-> Str("XXX")],
      [amount |-> Num(2), exchange_rate |-> Num(2), converted_amount |-> Num(2),
       converted_currency |-> Str("ARS")],
      [amount |-> Num(1), date |-> Str("")] }

\* the bodies that differ in their date and income flag only
DatedBodies ==
    { [amount |-> Num(1), date |-> Str("2026-01-01")],
      [amount |-> Num(2), date |-> Str("2026-01-02"), is_income |-> Bool(TRUE)],
      [amount |-> Num(1), is_income |-> Bool(TRUE)] }

\* the limits asked of GET /transactions/recent; the parameter is an int
\* with no bound
Limits == {0 - 1, 0, 1, 10}

\* the bodies that differ in their currencies only
CurrencyBodies ==
    { [amount |-> Num(1)],
      [amount |-> Num(2), currency |-> Str("USD"), converted_currency |-> Str("ARS")],
      [amount |-> Num(1), currency |-> Str("XXX")],
      [amount |-> Num(1), converted_currency |-> Str("XXX")],
      [amount |-> Num(1), currency |-> Str("")],
      [amount |-> Num(2), converted_currency |-> Str("")] }

\* the bodies that differ in their amount only
AmountBodies ==
    { [amount |-> Num(1)],
      [amount |-> Num(0)],
      [amount |-> Num(0 - 1), currency |-> Str("USD")],
      [description |-> Str("x")],
      [amount |-> Null] }

\* one body that validates, for the runs that are about something else
PlainBodies == { [amount |-> Num(1)] }

\* the arguments of /gastar
GastarCommands == { <<"1">>, <<"2", "x">>, <<"abc">> }

\* YAML mappings given to ingest_from_yaml
YamlItems ==
    { [monto |-> Plain("1")],
      [amount |-> Plain("2"), currency |-> Plain("USD"), es_ingreso |-> Plain("true")],
      [monto |-> Plain("0")],
      [monto |-> Plain("-1")],
      [descripcion |-> Plain("x")],
      [monto |-> Plain("abc")],
      [monto |-> Plain("1"), moneda |-> Plain("XXX")],
      [monto |-> Plain("null"), amount |-> Plain("1")] }

\* YAML mappings that are items of a batch document
BatchItems ==
    { [monto |-> Plain("1")],
      [monto |-> Plain("0")],
      [descripcion |-> Plain("x")],
      [monto |-> Plain("2"), moneda |-> Plain("XXX")] }

SeqsUpTo(S, n) == UNION {[1..k -> S] : k \in 0..n}

YamlDocs == {YamlMap(m) : m \in YamlItems} \cup {YamlEmpty, YamlScalar}

BatchDocs ==
    {YamlList(items) : items \in SeqsUpTo(BatchItems, MaxBatch)}
    \cup {YamlKeyed(k, items) : k \in {"transacciones", "transactions"},
                                items \in SeqsUpTo({[monto |-> Plain("1")]}, 1)}
    \cup {YamlMap(m) : m \in {[monto |-> Plain("1")], [descripcion |-> Plain("x")]}}
    \cup {YamlEmpty, YamlScalar}

\* the mappings given to convert_yaml_to_json: an amount part, a currency
\* part, an income part and a text part, each under the Spanish key, the
\* English key, both or neither
YamlAmountParts ==
    { NoRows,
      [monto |-> Plain("1")],
      [amount |-> Plain("2")],
      [monto |-> Plain("1"), amount |-> Plain("2")],
      [monto |-> Plain("null"), amount |-> Plain("2")],
      [monto |-> Plain("0")],
      [monto |-> Plain("-1")],
      [monto |-> Plain("abc")],
      [monto |-> Plain("1"), tasa_cambio |-> Plain("abc")],
      [monto |-> Plain("1"), tasa_cambio |-> Plain("null"),
       exchange_rate |-> Plain("2")] }

YamlCurrencyParts ==
    { NoRows,
      [moneda |-> Plain("USD")],
      [currency |-> Plain("CAD")],
      [moneda |-> Plain("USD"), currency |-> Plain("CAD")],
      [moneda |-> Plain("null"), currency |-> Plain("CAD")],
      [moneda |-> Plain("null")],
      [moneda |-> Quoted("")] }

YamlIncomeParts ==
    { NoRows,
      [es_ingreso |-> Plain("true")],
      [es_ingreso |-> Plain("false")],
      [es_ingreso |-> Quoted("YES")],
      [es_ingreso |-> Quoted("false")],
      [es_ingreso |-> Quoted("0")],
      [es_ingreso |-> Quoted("")],
      [es_ingreso |-> Plain("null"), is_income |-> Plain("true")] }

YamlTextParts ==
    { NoRows,
      [descripcion |-> Plain("x")],
      [description |-> Plain("y")],
      [descripcion |-> Plain("x"), description |-> Plain("y")],
      [descripcion |-> Plain("null"), description |-> Plain("y")],
      [descripcion |-> Quoted("")] }

NormMaps ==
    {a @@ c @@ i @@ t : a \in YamlAmountParts, c \in YamlCurrencyParts,
                        i \in YamlIncomeParts, t \in YamlTextParts}

\* the rows given to convert_csv_to_sql_format, built the same way
CsvAmountParts ==
    { NoRows,
      [monto |-> Str("1")],
      [monto |-> Str("0")],
      [monto |-> Str("-1")],
      [monto |-> Str("abc")],
      [monto |-> Str("")],
      [monto |-> Str("1"), tasa_cambio |-> Str("abc")],
      [monto |-> Str("1"), tasa_cambio |-> Str("2")] }

CsvCurrencyParts ==
    { NoRows, [moneda |-> Str("USD")], [moneda |-> Str("")] }

CsvIncomeParts ==
    { NoRows } \cup
    { [es_ingreso |-> Str(x)] :
        x \in {"true", "True", "TRUE", "1", "yes", "YES", "false", "False", "0",
               "no", "x", ""} }

CsvTextParts ==
    { NoRows,
      [descripcion |-> Str("x")],
      [descripcion |-> Str("")],
      [id |-> Str("a"), descripcion |-> Str("")] }

NormRows ==
    {a @@ c @@ i @@ t : a \in CsvAmountParts, c \in CsvCurrencyParts,
                        i \in CsvIncomeParts, t \in CsvTextParts}

\* the rows of the CSV files given to create_local_sqlite_from_csv
MigRows ==
    { [id |-> Str("a"), fecha |-> Str("2026-01-01"), monto |-> Str("1")],
      [id |-> Str("b"), fecha |-> Str("2026-01-02"), monto |-> Str("2"),
       es_ingreso |-> Str("True")],
      [id |-> Str(""), fecha |-> Str("2026-01-03"), monto |-> Str("1")],
      [fecha |-> Str("2026-01-04"), monto |-> Str("2")],
      [id |-> Str("c"), fecha |-> Str("2026-01-05"), monto |-> Str("-1")],
      [id |-> Str("d"), fecha |-> Str("2026-01-06"), monto |-> Str("0")],
      [id |-> Str("e"), monto |-> Str("1")] }

MigCsvs == SeqsUpTo(MigRows, MaxBatch)

\* SQL texts posted to /query
GatewaySqls ==
    {SelectById(id) : id \in Ids}
    \cup { <<" ", "\n">> \o lower(tSELECT_ALL) \o <<" ">>,
           tDROP_TABLE,
           <<" ">> \o lower(tDROP_TABLE),
           tDELETE_FROM,
           kSELECT \o <<"E","D">>,
           tSELECT_ALL \o <<";"," ">> \o tDROP_TABLE }

Confirmations == {"DELETE_ALL", "delete_all", ""}

\* SQL texts given to the two guards: leading whitespace, a first word, and
\* up to MaxFrags further fragments
GuardLeads == { <<>>, <<" ">>, <<"\n", "\t", " ">> }

GuardHeads ==
    { kSELECT, lower(kSELECT), <<"S","e","L","e","C","t">>, <<"S","E","L","E","C">>,
      kWITH \o <<" ">>, kDROP, lower(kINSERT), <<"(">> \o kSELECT }

GuardFrags ==
    { <<" ","*"," ","F","R","O","M"," ","t">>,
      <<" ">> \o lower(kDROP),
      <<"U","P">>,
      <<"D","a","T","e">>,
      <<" ","'","%">> \o kDELETE \o <<"%","'">>,
      <<";"," ">> }

RECURSIVE Concat(_)
Concat(ss) == IF ss = <<>> THEN <<>> ELSE Head(ss) \o Concat(Tail(ss))

\* a word with its letters in alternating case
mixed(w) == [i \in 1..Len(w) |-> IF i % 2 = 1 THEN UpperChar(w[i]) ELSE LowerChar(w[i])]

GuardSqls ==
    {lead \o head \o Concat(frags) :
        lead \in GuardLeads, head \in GuardHeads,
        frags \in SeqsUpTo(GuardFrags, MaxFrags)}
    \cup {kSELECT \o <<" ", "x">> \o w \o <<"y">> :
            w \in UNION {{k.text, lower(k.text), mixed(k.text)} :
                            k \in {server_dangerous_keywords[i] :
                                     i \in DOMAIN server_dangerous_keywords}}}

----------------------------------------------------------------------------
(* Actions.  Each takes the sets its inputs are drawn from. *)

\* worker p answers and is free again
Answer(p, l) ==
    /\ last' = l
    /\ pc' = [pc EXCEPT ![p] = "idle"]
    /\ loc' = [loc EXCEPT ![p] = NoLoc]

\* POST /ingest
Ingest(p, keys, bodies) ==
    \E key \in keys, body \in bodies, now \in Times :
        LET r == ingest_transaction(key, body, now)
        IN  /\ pc[p] = "idle"
            /\ r.status = 200 => nextId < MaxIds
            /\ rows' = r.table
            /\ nextId' = IF r.status = 200 THEN r.id ELSE nextId
            /\ Answer(p, Last("ingest", key, body, r.status, r.id, 0, <<>>))
            /\ UNCHANGED <<dbOk, serverKey, cli, deleted, chk, mig>>

\* POST /query
Query(p, keys, sqls) ==
    \E key \in keys, sql \in sqls :
        LET r == execute_query(key, sql)
        IN  /\ pc[p] = "idle"
            /\ rows' = r.table
            /\ Answer(p, Last("query", key, sql, r.status, 0, Cardinality(r.result),
                              [executed |-> r.executed, result |-> r.result]))
            /\ UNCHANGED <<nextId, dbOk, serverKey, cli, deleted, chk, mig>>

\* DELETE /transactions/{transaction_id}: up to the SELECT that looks for the row
DeleteCheck(p, keys) ==
    \E key \in keys, transaction_id \in Ids :
        LET status == delete_transaction_select(key, transaction_id)
        IN  /\ pc[p] = "idle"
            /\ IF status = 200
               THEN /\ pc' = [pc EXCEPT ![p] = "delete"]
                    /\ loc' = [loc EXCEPT ![p] = [NoLoc EXCEPT !.id = transaction_id]]
                    /\ UNCHANGED last
               ELSE Answer(p, Last("delete", key, transaction_id, status, transaction_id,
                                   0, <<>>))
            /\ UNCHANGED <<rows, nextId, dbOk, serverKey, cli, deleted, chk, mig>>

\* mutant: the DELETE has no WHERE clause
DeleteRow_all(p) ==
    /\ pc[p] = "delete"
    /\ rows' = IF dbOk THEN NoRows ELSE rows
    /\ deleted' = IF dbOk THEN [deleted EXCEPT ![loc[p].id] = @ + 1] ELSE deleted
    /\ Answer(p, Last("delete", serverKey, loc[p].id, IF dbOk THEN 200 ELSE 500,
                      loc[p].id, 0, <<>>))
    /\ UNCHANGED <<nextId, dbOk, serverKey, cli, chk, mig>>

\* DELETE /transactions/{transaction_id}: the DELETE and its commit
DeleteRow(p) ==
    /\ pc[p] = "delete"
    /\ rows' = IF dbOk THEN [i \in DOMAIN rows \ {loc[p].id} |-> rows[i]] ELSE rows
    /\ deleted' = IF dbOk THEN [deleted EXCEPT ![loc[p].id] = @ + 1] ELSE deleted
    /\ Answer(p, Last("delete", serverKey, loc[p].id, IF dbOk THEN 200 ELSE 500,
                      loc[p].id, 0, <<>>))
    /\ UNCHANGED <<nextId, dbOk, serverKey, cli, chk, mig>>

\* DELETE /transactions?confirm=...: up to the SELECT COUNT(*)
DeleteAllCount(p, keys, confirms) ==
    \E key \in keys, confirm \in confirms :
        LET status == delete_all_transactions_count(key, confirm)
        IN  /\ pc[p] = "idle"
            /\ IF status = 200
               THEN /\ pc' = [pc EXCEPT ![p] = "delete_all"]
                    /\ loc' = [loc EXCEPT ![p] =
                                 [NoLoc EXCEPT !.count = Cardinality(DOMAIN rows)]]
                    /\ UNCHANGED last
               ELSE Answer(p, Last("delete_all", key, confirm, status, 0, 0, <<>>))
            /\ UNCHANGED <<rows, nextId, dbOk, serverKey, cli, deleted, chk, mig>>

\* DELETE /transactions?confirm=DELETE_ALL: the DELETE and its commit
DeleteAllRows(p) ==
    /\ pc[p] = "delete_all"
    /\ rows' = IF dbOk THEN NoRows ELSE rows
    /\ Answer(p, Last("delete_all", serverKey, "DELETE_ALL", IF dbOk THEN 200 ELSE 500,
                      0, IF dbOk THEN loc[p].count ELSE 0, <<>>))
    /\ UNCHANGED <<nextId, dbOk, serverKey, cli, deleted, chk, mig>>

\* GET /stats
Stats(p, keys) ==
    \E key \in keys :
        LET r == get_stats(key)
        IN  /\ pc[p] = "idle"
            /\ Answer(p, Last("stats", key, <<>>, r.status, 0,
                              r.stats.total_transactions, r.stats))
            /\ UNCHANGED <<rows, nextId, dbOk, serverKey, cli, deleted, chk, mig>>

\* GET /transactions/recent
Recent(p, keys, limits) ==
    \E key \in keys, limit \in limits :
        \E r \in get_recent_transactions(key, limit) :
            /\ pc[p] = "idle"
            /\ Answer(p, Last("recent", key, limit, r.status, 0, r.count,
                              r.transactions))
            /\ UNCHANGED <<rows, nextId, dbOk, serverKey, cli, deleted, chk, mig>>

\* ingest_from_yaml called on its own
YamlIngest(keys, docs) ==
    \E api_key \in keys, doc \in docs, now \in Times :
        LET r == ingest_from_yaml(doc, api_key, now)
        IN  /\ cli.pc = "idle"
            /\ r.outcome = "ok" => nextId < MaxIds
            /\ rows' = r.table
            /\ nextId' = IF r.outcome = "ok" THEN r.id ELSE nextId
            /\ last' = Last("yaml", api_key, doc, r.status, r.id, 0,
                            [outcome |-> r.outcome, error |-> r.error])
            /\ UNCHANGED <<dbOk, serverKey, pc, loc, cli, deleted, chk, mig>>

\* the YAML text the /gastar handler builds from its arguments: the amount
\* through float() and its formatting, the description as it was typed
GastarYaml(monto, descripcion) ==
    YamlMap([monto |-> Plain(NumeralOf(monto)), descripcion |-> Plain(descripcion)])

\* one run of the /gastar handler on the arguments args, as a first attempt
\* (retry = FALSE) or as the repetition its timeout reply asks for: the
\* subprocess running yaml_to_modal.py either ends within 30 seconds or is
\* stopped (timeout), and a stopped one had its POST served (effect) or not
GastarRun(args, retry, before) ==
    \E now \in Times, timeout \in BOOLEAN, effect \in BOOLEAN,
       monto \in {float(Str(args[1]))},
       descripcion \in {IF Len(args) > 1 THEN args[2] ELSE "Gasto"} :
     \E yaml_content \in {GastarYaml(monto.n, descripcion)} :
      \E r \in {ingest_from_yaml(yaml_content, "k", now)} :
        LET applied == (~timeout \/ effect) /\ r.outcome = "ok"
            reply == IF timeout THEN "Timeout - intenta de nuevo"
                     ELSE IF r.outcome = "ok" THEN "Gasto registrado"
                     ELSE "Error"
        IN  IF ~monto.ok
            THEN /\ last' = Last("gastar", "k", args, 0, 0, 0,
                                 [reply |-> "Monto invalido", retry |-> retry,
                                  before |-> before])
                 /\ cli' = NoCli
                 /\ UNCHANGED <<rows, nextId>>
            ELSE /\ (timeout \/ ~effect)
                 /\ applied => nextId < MaxIds
                 /\ rows' = IF applied THEN r.table ELSE rows
                 /\ nextId' = IF applied THEN r.id ELSE nextId
                 /\ last' = Last("gastar", "k", args, IF timeout THEN 0 ELSE r.status,
                                 0, 0, [reply |-> reply, retry |-> retry,
                                        before |-> before])
                 /\ cli' = IF timeout
                           THEN [NoCli EXCEPT !.pc = "again", !.transactions = <<args>>,
                                              !.before = before]
                           ELSE NoCli

\* /gastar <monto> [descripcion] sent to the bot
Gastar(commands) ==
    \E args \in commands :
        /\ cli.pc = "idle"
        /\ GastarRun(args, FALSE, nextId)
        /\ UNCHANGED <<dbOk, serverKey, pc, loc, deleted, chk, mig>>

\* the same command sent again after the reply "Timeout - intenta de nuevo"
GastarAgain ==
    /\ cli.pc = "again"
    /\ GastarRun(cli.transactions[1], TRUE, cli.before)
    /\ UNCHANGED <<dbOk, serverKey, pc, loc, deleted, chk, mig>>

\* mutant: every non-empty mapping without a collection key is taken as a
\* single record
BatchTransactions_anymap(doc) ==
    IF \/ doc.kind = "empty"
       \/ doc.kind = "list" /\ doc.items = <<>>
       \/ doc.kind = "map" /\ DOMAIN doc.map = {} /\ doc.seqkey = ""
    THEN [ok |-> FALSE, error |-> "empty", transactions |-> <<>>]
    ELSE IF doc.kind = "list"
    THEN [ok |-> TRUE, error |-> "",
          transactions |-> [i \in 1..Len(doc.items) |-> LoadMap(doc.items[i])]]
    ELSE IF doc.kind = "map" /\ doc.seqkey \in {"transacciones", "transactions"}
    THEN [ok |-> TRUE, error |-> "",
          transactions |-> [i \in 1..Len(doc.items) |-> LoadMap(doc.items[i])]]
    ELSE IF doc.kind = "map" /\ doc.seqkey = ""
    THEN [ok |-> TRUE, error |-> "", transactions |-> <<LoadMap(doc.map)>>]
    ELSE [ok |-> FALSE, error |-> "format", transactions |-> <<>>]

\* the sequence ingest_batch_from_yaml iterates over, or the ValueError
BatchTransactions(doc) ==
    IF \/ doc.kind = "empty"
       \/ doc.kind = "list" /\ doc.items = <<>>
       \/ doc.kind = "map" /\ DOMAIN doc.map = {} /\ doc.seqkey = ""
    THEN [ok |-> FALSE, error |-> "empty", transactions |-> <<>>]
    ELSE IF doc.kind = "list"
    THEN [ok |-> TRUE, error |-> "",
          transactions |-> [i \in 1..Len(doc.items) |-> LoadMap(doc.items[i])]]
    ELSE IF doc.kind = "map" /\ doc.seqkey \in {"transacciones", "transactions"}
    THEN [ok |-> TRUE, error |-> "",
          transactions |-> [i \in 1..Len(doc.items) |-> LoadMap(doc.items[i])]]
    ELSE IF doc.kind = "map" /\ DOMAIN doc.map \cap {"monto", "amount"} # {}
    THEN [ok |-> TRUE, error |-> "", transactions |-> <<LoadMap(doc.map)>>]
    ELSE [ok |-> FALSE, error |-> "format", transactions |-> <<>>]

\* ingest_batch_from_yaml: loading and classifying the document; with nothing
\* to iterate over it returns (or raises) at once.  The caller has no answer
\* in hand while a batch runs.
BatchStart(keys, docs) ==
    \E api_key \in keys, doc \in docs :
        LET b == BatchTransactions(doc)
        IN  /\ cli.pc = "idle"
            /\ IF b.ok /\ b.transactions # <<>>
               THEN /\ cli' = [pc |-> "batch", key |-> api_key,
                               transactions |-> b.transactions, i |-> 1,
                               results |-> <<>>,
                               before |-> Cardinality(DOMAIN rows)]
                    /\ last' = NoLast
               ELSE /\ last' = Last("batch", api_key, <<>>, 0, 0, 0,
                                    [outcome |-> IF b.ok THEN "ok" ELSE "ValueError",
                                     error |-> b.error, results |-> <<>>])
                    /\ UNCHANGED cli
            /\ UNCHANGED <<rows, nextId, dbOk, serverKey, pc, loc, deleted, chk, mig>>

\* mutant: the items are numbered from 0
BatchResult_from0(i, r) ==
    [success |-> r.outcome = "ok", index |-> i - 1, id |-> r.id, error |-> r.error,
     status |-> r.status]

\* the entry the loop appends for item i, r being what ingest_from_yaml did
BatchResult(i, r) ==
    [success |-> r.outcome = "ok", index |-> i, id |-> r.id, error |-> r.error,
     status |-> r.status]

\* ingest_batch_from_yaml: one turn of the loop, and the return after the last
BatchItem ==
    \E now \in Times :
        LET i == cli.i
            trans_yaml == YamlMap(DumpMap(cli.transactions[i]))
            r == ingest_from_yaml(trans_yaml, cli.key, now)
            results == Append(cli.results, BatchResult(i, r))
        IN  /\ cli.pc = "batch"
            /\ r.outcome = "ok" => nextId < MaxIds
            /\ rows' = r.table
            /\ nextId' = IF r.outcome = "ok" THEN r.id ELSE nextId
            /\ IF i < Len(cli.transactions)
               THEN /\ cli' = [cli EXCEPT !.i = i + 1, !.results = results]
                    /\ UNCHANGED last
               ELSE /\ cli' = NoCli
                    /\ last' = Last("batch", cli.key, <<>>, 0, 0, Len(results),
                                    [outcome |-> "ok", error |-> "", results |-> results])
            /\ UNCHANGED <<dbOk, serverKey, pc, loc, deleted, chk, mig>>

\* both guards applied to the text drawn at the start
GuardCheck ==
    /\ chk.fn = "input"
    /\ chk' = [fn |-> "checked", sql |-> chk.sql,
               server |-> validate_sql(chk.sql),
               client |-> is_safe_query(chk.sql)]
    /\ UNCHANGED <<rows, nextId, dbOk, serverKey, pc, loc, cli, last, deleted, mig>>

\* convert_yaml_to_json applied to the mapping drawn at the start
YamlNormalize ==
    /\ chk.fn = "yaml_input"
    /\ chk' = [fn |-> "yaml_output", in |-> chk.in,
               out |-> convert_yaml_to_json(YamlMap(chk.in))]
    /\ UNCHANGED <<rows, nextId, dbOk, serverKey, pc, loc, cli, last, deleted, mig>>

\* convert_csv_to_sql_format applied to the row drawn at the start
CsvNormalize ==
    /\ chk.fn = "csv_input"
    /\ chk' = [fn |-> "csv_output", in |-> chk.in,
               out |-> convert_csv_to_sql_format(chk.in)]
    /\ UNCHANGED <<rows, nextId, dbOk, serverKey, pc, loc, cli, last, deleted, mig>>

\* the values create_local_sqlite_from_csv binds to its INSERT
LocalRow(sql_row) ==
    [ id                 |-> OptValue(Get(sql_row, "id")),
      date               |-> OptValue(Get(sql_row, "date")),
      amount             |-> OptValue(Get(sql_row, "amount")),
      currency           |-> IF "currency" \in DOMAIN sql_row THEN sql_row["currency"]
                             ELSE Str("ARS"),
      expense_type       |-> OptValue(Get(sql_row, "expense_type")),
      category           |-> OptValue(Get(sql_row, "category")),
      is_income          |-> IF Truthy(Get(sql_row, "is_income")) THEN 1 ELSE 0,
      payment_method     |-> OptValue(Get(sql_row, "payment_method")),
      money_source       |-> OptValue(Get(sql_row, "money_source")),
      description        |-> OptValue(Get(sql_row, "description")),
      notes              |-> OptValue(Get(sql_row, "notes")),
      exchange_rate      |-> OptValue(Get(sql_row, "exchange_rate")),
      converted_amount   |-> OptValue(Get(sql_row, "converted_amount")),
      converted_currency |-> OptValue(Get(sql_row, "converted_currency")) ]

\* the constraints of the local table on a row.  With the basic schema: id
\* TEXT PRIMARY KEY (SQLite keeps a non-null id unique and lets NULL in),
\* date, amount and currency NOT NULL.  With a schema file, taken to be the
\* schema the gateway creates: CHECK(amount > 0) as well.
LocalSchemaAccepts(schema, table, row) ==
    /\ row.id.t # "null" => \A j \in 1..Len(table) : table[j].id # row.id
    /\ row.date.t # "null"
    /\ row.amount.t # "null"
    /\ row.currency.t # "null"
    /\ schema = "file" => (row.amount.t = "num" /\ row.amount.n > 0)

\* create_local_sqlite_from_csv: reading the CSV and creating the table, from
\* the schema file when there is one and from the basic schema otherwise; with
\* no rows in the CSV it returns 0 at once
MigStart(csvs) ==
    \E csv \in csvs, schema \in {"file", "basic"} :
        /\ mig.pc = "idle"
        /\ mig' = IF csv = <<>>
                  THEN [NoMig EXCEPT !.pc = "done"]
                  ELSE [pc |-> "rows", csv |-> csv, schema |-> schema, i |-> 1,
                        table |-> <<>>, inserted |-> 0, errors |-> 0]
        /\ UNCHANGED <<rows, nextId, dbOk, serverKey, pc, loc, cli, last, deleted, chk>>

\* create_local_sqlite_from_csv: one turn of the loop, and the commit and
\* return after the last
MigRow ==
    LET r == convert_csv_to_sql_format(mig.csv[mig.i])
        row == LocalRow(r.row)
        done == r.ok /\ LocalSchemaAccepts(mig.schema, mig.table, row)
    IN  /\ mig.pc = "rows"
        /\ mig' = [mig EXCEPT
                     !.table = IF done THEN Append(@, row) ELSE @,
                     !.inserted = IF done THEN @ + 1 ELSE @,
                     !.errors = IF done THEN @ ELSE @ + 1,
                     !.i = @ + 1,
                     !.pc = IF mig.i < Len(mig.csv) THEN "rows" ELSE "done"]
        /\ UNCHANGED <<rows, nextId, dbOk, serverKey, pc, loc, cli, last, deleted, chk>>

\* the database file becomes unusable, or usable again
DbFails ==
    /\ dbOk
    /\ dbOk' = FALSE
    /\ UNCHANGED <<rows, nextId, serverKey, pc, loc, cli, last, deleted, chk, mig>>

DbRecovers ==
    /\ ~dbOk
    /\ dbOk' = TRUE
    /\ UNCHANGED <<rows, nextId, serverKey, pc, loc, cli, last, deleted, chk, mig>>

----------------------------------------------------------------------------
(* Specifications.  Each draws the inputs of the operation it is about from *)
(* the full sets and keeps the other operations' inputs plain.              *)

Init ==
    /\ rows = NoRows
    /\ nextId = 0
    /\ dbOk = TRUE
    /\ serverKey \in {"k", ""}
    /\ pc = [p \in Workers |-> "idle"]
    /\ loc = [p \in Workers |-> NoLoc]
    /\ cli = NoCli
    /\ last = NoLast
    /\ deleted = [id \in Ids |-> 0]
    /\ chk = NoChk
    /\ mig = NoMig

\* SpecQuery: POST /query with every credential and text, between ingests and
\* deletes; the requests are served one after the other
NextQuery ==
    \/ Query(1, Credentials, GatewaySqls)
    \/ Ingest(1, {"k"}, PlainBodies)
    \/ DeleteCheck(1, {"k"})
    \/ DeleteRow(1)
    \/ DeleteAllCount(1, {"k"}, {"DELETE_ALL"})
    \/ DeleteAllRows(1)
    \/ DbFails
    \/ DbRecovers

SpecQuery == Init /\ [][NextQuery]_vars

\* SpecIngest: POST /ingest with every credential and body, queries by id and
\* deletes; the requests are served one after the other
NextIngest ==
    \/ Ingest(1, Credentials, Bodies)
    \/ Query(1, {"k"}, {SelectById(id) : id \in Ids})
    \/ DeleteCheck(1, {"k"})
    \/ DeleteRow(1)
    \/ DbFails
    \/ DbRecovers

SpecIngest == Init /\ [][NextIngest]_vars

\* SpecDelete: the two DELETE endpoints with every credential, id and
\* confirmation; the requests are served one after the other
NextDelete ==
    \/ Ingest(1, {"k"}, PlainBodies)
    \/ DeleteCheck(1, Credentials)
    \/ DeleteRow(1)
    \/ DeleteAllCount(1, Credentials, Confirmations)
    \/ DeleteAllRows(1)
    \/ DbFails
    \/ DbRecovers

SpecDelete == Init /\ [][NextDelete]_vars

\* SpecYaml: ingest_from_yaml and a caller of POST /ingest, taking turns
NextYaml ==
    \/ Ingest(1, {"k", "bad"}, AmountBodies)
    \/ YamlIngest({"k", "bad", ""}, YamlDocs)
    \/ DbFails
    \/ DbRecovers

SpecYaml == Init /\ [][NextYaml]_vars

\* SpecBatch: ingest_batch_from_yaml, one batch after the other
NextBatch ==
    \/ BatchStart({"k", ""}, BatchDocs)
    \/ BatchItem
    \/ DbFails
    \/ DbRecovers

SpecBatch == Init /\ [][NextBatch]_vars

\* SpecGuard: QueryRequest.validate_sql and is_safe_query as functions of the
\* text
InitGuard ==
    /\ rows = NoRows
    /\ nextId = 0
    /\ dbOk = TRUE
    /\ serverKey = "k"
    /\ pc = [p \in Workers |-> "idle"]
    /\ loc = [p \in Workers |-> NoLoc]
    /\ cli = NoCli
    /\ last = NoLast
    /\ deleted = [id \in Ids |-> 0]
    /\ chk \in {[fn |-> "input", sql |-> sql] : sql \in GuardSqls}
    /\ mig = NoMig

NextGuard == GuardCheck

SpecGuard == InitGuard /\ [][NextGuard]_vars

\* SpecCurrency: POST /ingest with every currency, and deletes; the requests
\* are served one after the other
NextCurrency ==
    \/ Ingest(1, {"k", "bad"}, CurrencyBodies)
    \/ DeleteCheck(1, {"k"})
    \/ DeleteRow(1)
    \/ DbFails
    \/ DbRecovers

SpecCurrency == Init /\ [][NextCurrency]_vars

\* SpecReads: GET /stats and GET /transactions/recent with every credential
\* and limit, between ingests and deletes; the requests are served one after
\* the other
NextReads ==
    \/ Stats(1, Credentials)
    \/ Recent(1, Credentials, Limits)
    \/ Ingest(1, {"k"}, DatedBodies)
    \/ DeleteCheck(1, {"k"})
    \/ DeleteRow(1)
    \/ DbFails
    \/ DbRecovers

SpecReads == Init /\ [][NextReads]_vars

\* SpecAuth: the six endpoints behind verify_api_key with every credential,
\* on a server with and without a configured key; the requests are served one
\* after the other
NextAuth ==
    \/ Ingest(1, AuthKeys, PlainBodies)
    \/ Query(1, AuthKeys, {tSELECT_ALL})
    \/ Stats(1, AuthKeys)
    \/ Recent(1, AuthKeys, {10})
    \/ DeleteCheck(1, AuthKeys)
    \/ DeleteRow(1)
    \/ DeleteAllCount(1, AuthKeys, {"DELETE_ALL"})
    \/ DeleteAllRows(1)
    \/ DbFails
    \/ DbRecovers

SpecAuth == Init /\ [][NextAuth]_vars

\* SpecFrame: every operation of the gateway with the valid key, on rows that
\* differ, with a store that fails and recovers; the requests are served one
\* after the other
NextFrame ==
    \/ Ingest(1, {"k"}, DatedBodies)
    \/ Query(1, {"k"}, GatewaySqls)
    \/ Stats(1, {"k"})
    \/ Recent(1, {"k"}, {1})
    \/ DeleteCheck(1, {"k"})
    \/ DeleteRow(1)
    \/ DeleteAllCount(1, {"k"}, {"DELETE_ALL"})
    \/ DeleteAllRows(1)
    \/ DbFails
    \/ DbRecovers

SpecFrame == Init /\ [][NextFrame]_vars

\* SpecRetry: the /gastar command of the bot, repeated when the bot answers
\* with its timeout reply
NextRetry ==
    \/ Gastar(GastarCommands)
    \/ GastarAgain
    \/ DbFails
    \/ DbRecovers

SpecRetry == Init /\ [][NextRetry]_vars

\* SpecNorm: convert_yaml_to_json and convert_csv_to_sql_format as functions
\* of the mapping and of the row
InitNorm ==
    /\ rows = NoRows
    /\ nextId = 0
    /\ dbOk = TRUE
    /\ serverKey = "k"
    /\ pc = [p \in Workers |-> "idle"]
    /\ loc = [p \in Workers |-> NoLoc]
    /\ cli = NoCli
    /\ last = NoLast
    /\ deleted = [id \in Ids |-> 0]
    /\ chk \in {[fn |-> "yaml_input", in |-> m] : m \in NormMaps}
               \cup {[fn |-> "csv_input", in |-> r] : r \in NormRows}
    /\ mig = NoMig

NextNorm ==
    \/ YamlNormalize
    \/ CsvNormalize

SpecNorm == InitNorm /\ [][NextNorm]_vars

\* SpecMig: one run of create_local_sqlite_from_csv on a new database file
NextMig ==
    \/ MigStart(MigCsvs)
    \/ MigRow

SpecMig == Init /\ [][NextMig]_vars

\* SpecConc: requests served concurrently by NumWorkers workers, each with
\* its own connection
NextConc ==
    \/ \E p \in Workers : Ingest(p, {"k"}, PlainBodies)
    \/ \E p \in Workers : DeleteCheck(p, {"k"})
    \/ \E p \in Workers : DeleteRow(p)
    \/ \E p \in Workers : DeleteAllCount(p, {"k"}, {"DELETE_ALL"})
    \/ \E p \in Workers : DeleteAllRows(p)
    \/ DbFails
    \/ DbRecovers

SpecConc == Init /\ [][NextConc]_vars

----------------------------------------------------------------------------
(* The query guard (SpecGuard) *)

\* the text starts, after leading whitespace, with the letters of SELECT in
\* either case
StartsWithSelect(text) ==
    \E k \in 0..Len(text) :
        /\ \A i \in 1..k : text[i] \in Whitespace
        /\ Len(text) >= k + 6
        /\ \A j \in 1..6 :
              text[k + j] \in {kSELECT[j], <<"s","e","l","e","c","t">>[j]}

\* the text holds the word at some position, each letter in either case
HoldsWord(text, word) ==
    \E i \in 1..(Len(text) - Len(word) + 1) :
        \A j \in 1..Len(word) : LowerChar(text[i + j - 1]) = LowerChar(word[j])

DenyListed ==
    {kDROP, kDELETE, kINSERT, kUPDATE, kALTER, kCREATE, kTRUNCATE, kREPLACE,
     kPRAGMA, kATTACH, kDETACH}

\* C2: a text that does not start with SELECT, after trimming whitespace and
\* ignoring case, is rejected by QueryRequest.validate_sql and by
\* is_safe_query whatever else it holds, a text that starts with WITH included
C2_NonSelectRejected ==
    (chk.fn = "checked" /\ ~StartsWithSelect(chk.sql))
        => (~chk.server.ok /\ ~chk.client)

\* a text starting with WITH after a blank, with further content, was rejected
\* by both guards
C2_Witness ==
    /\ chk.fn = "checked"
    /\ Len(chk.sql) > 6
    /\ SubSeq(chk.sql, 1, 5) = <<" ">> \o kWITH
    /\ ~chk.server.ok
    /\ ~chk.client

\* C3: a text holding a deny-listed word anywhere, in any letter case, inside
\* a string literal or a longer word, is rejected by both guards even when it
\* starts with SELECT
C3_DenyListedRejected ==
    (chk.fn = "checked" /\ \E word \in DenyListed : HoldsWord(chk.sql, word))
        => (~chk.server.ok /\ ~chk.client)

\* a text starting with SELECT and holding DELETE inside a string literal
\* only was rejected by both guards
C3_Witness ==
    /\ chk.fn = "checked"
    /\ chk.sql = lower(kSELECT) \o <<" ","*"," ","F","R","O","M"," ","t">>
                    \o <<" ","'","%">> \o kDELETE \o <<"%","'">>
    /\ chk.server.error = "DELETE"
    /\ ~chk.client

----------------------------------------------------------------------------
(* POST /query (SpecQuery) *)

\* C1: whatever the stored rows, the credential and the text, a Query leaves
\* the rows as they are; a text the guard rejects is never handed to
\* conn.execute, and a text it accepts is handed over exactly as submitted
C1_QueryLeavesRows ==
    \A key \in Credentials, sql \in GatewaySqls :
        LET r == execute_query(key, sql)
            accepted == validate_sql(sql).ok
        IN  /\ r.table = rows
            /\ IF ~accepted THEN r.executed = <<>>
               ELSE IF verify_api_key(key) = 200 /\ dbOk THEN r.executed = <<sql>>
               ELSE r.executed \in {<<>>, <<sql>>}

\* a lower-case text with surrounding whitespace was executed as submitted
\* over a table with rows, and every row is still there
C1_Witness ==
    /\ last.op = "query"
    /\ last.status = 200
    /\ last.in = <<" ", "\n">> \o lower(tSELECT_ALL) \o <<" ">>
    /\ last.out.executed = <<last.in>>
    /\ rows # NoRows
    /\ last.out.result = {rows[i] : i \in DOMAIN rows}

----------------------------------------------------------------------------
(* POST /ingest (SpecIngest) *)

Given(body, f) == f \in DOMAIN body /\ body[f].t # "null"

AmountPositive(body) ==
    Given(body, "amount") /\ body["amount"].t = "num" /\ body["amount"].n > 0

CurrencyListed(body) ==
    "currency" \in DOMAIN body
        => (body["currency"].t = "str" /\ body["currency"].s \in Currencies)

\* the optional conversion fields, when given, are positive numbers and a
\* listed (or empty) currency
ConversionValid(body) ==
    /\ \A f \in {"exchange_rate", "converted_amount"} :
          Given(body, f) => (body[f].t = "num" /\ body[f].n > 0)
    /\ Given(body, "converted_currency")
          => (body["converted_currency"].t = "str"
              /\ body["converted_currency"].s \in Currencies \cup {""})

\* the row holds the submitted fields as they were submitted
RowEquals(row, body) ==
    \A f \in DOMAIN body :
        IF f = "is_income" THEN row[f] = body[f].n ELSE row[f] = body[f]

\* the row holds the submitted fields, a missing or empty date replaced by
\* the time of the insert
RowMatches(row, body) ==
    \A f \in DOMAIN body :
        IF f = "is_income" THEN row[f] = body[f].n
        ELSE IF f = "date" /\ ~Truthy(body[f]) THEN row[f] \in {Str(now) : now \in Times}
        ELSE row[f] = body[f]

\* the answer in hand is a successful ingest and the query by its id gives
\* exactly one row, for which P holds
QueryByIdGives(P(_, _)) ==
    (last.op = "ingest" /\ last.status = 200 /\ dbOk)
        => LET q == execute_query(serverKey, SelectById(last.id))
           IN  /\ q.status = 200
               /\ Cardinality(q.result) = 1
               /\ \A row \in q.result : row.id = last.id /\ P(row, last.in)

\* C4 as stated: every body with amount > 0 and a listed currency, sent with
\* the valid key to a working store, is ingested, and the query by the id
\* answered gives one row equal to the submitted fields
C4_AsStated ==
    /\ \A body \in Bodies, now \in Times :
          (AmountPositive(body) /\ CurrencyListed(body) /\ serverKey # "" /\ dbOk)
              => ingest_transaction(serverKey, body, now).status = 200
    /\ QueryByIdGives(RowEquals)

\* C4: every body with amount > 0, a listed currency and valid conversion
\* fields, sent with the valid key to a working store, is ingested under a new
\* id, and the query by that id gives exactly one row holding the submitted
\* fields, is_income as 1 or 0 and an empty date replaced by the insert time
C4_IngestThenQuery ==
    /\ \A body \in Bodies, now \in Times :
          (/\ AmountPositive(body) /\ CurrencyListed(body) /\ ConversionValid(body)
           /\ serverKey # "" /\ dbOk)
              => LET r == ingest_transaction(serverKey, body, now)
                 IN  /\ r.status = 200
                     /\ r.id \notin DOMAIN rows
                     /\ r.id \in DOMAIN r.table
    /\ QueryByIdGives(RowMatches)

\* the query by the id of an ingested USD income with a date of its own
\* returned that one row
C4_Witness ==
    /\ last.op = "query"
    /\ last.status = 200
    /\ \E id \in DOMAIN rows :
          /\ last.in = SelectById(id)
          /\ last.out.result = {rows[id]}
          /\ rows[id].currency = Str("USD")
          /\ rows[id].is_income = 1
          /\ rows[id].date = Str("2026-01-01")

----------------------------------------------------------------------------
(* Amounts that do not validate (SpecYaml) *)

\* the body has no amount, a null one, or one that is not above 0
AmountBad(body) ==
    ~Given(body, "amount") \/ (body["amount"].t = "num" /\ body["amount"].n <= 0)

\* the YAML mapping gives no amount above 0 under either of its keys
YamlAmountBad(m) ==
    \A k \in {"monto", "amount"} \cap DOMAIN m :
        LET v == LoadScalar(m[k])
        IN  v.t = "null" \/ (v.t = "num" /\ v.n <= 0)

\* C5: a payload whose amount is missing or <= 0 is never ingested and the
\* row count stays: POST /ingest answers 422 to a caller with the valid key,
\* and ingest_from_yaml with the valid key raises for the missing amount
\* (ValueError) or for the 422 it was answered (RuntimeError)
C5_BadAmountRejected ==
    /\ \A key \in Credentials, body \in Bodies, now \in Times :
          AmountBad(body)
              => LET r == ingest_transaction(key, body, now)
                 IN  /\ r.status # 200
                     /\ Cardinality(DOMAIN r.table) = Cardinality(DOMAIN rows)
                     /\ r.table = rows
                     /\ (key = serverKey) => r.status = 422
    /\ \A api_key \in {"k", "bad", ""}, doc \in YamlDocs, now \in Times :
          (doc.kind = "map" /\ YamlAmountBad(doc.map))
              => LET r == ingest_from_yaml(doc, api_key, now)
                 IN  /\ r.outcome \in {"ValueError", "RuntimeError"}
                     /\ Cardinality(DOMAIN r.table) = Cardinality(DOMAIN rows)
                     /\ r.table = rows
                     /\ (api_key = serverKey /\ api_key # "")
                           => \/ r.outcome = "ValueError"
                                 /\ r.error \in {"amount", "empty"}
                              \/ r.outcome = "RuntimeError" /\ r.status = 422

\* ingest_from_yaml was given "monto: 0" with the valid key, was answered 422
\* and raised, and the rows ingested before are all there
C5_Witness ==
    /\ last.op = "yaml"
    /\ last.key = serverKey
    /\ last.in = YamlMap([monto |-> Plain("0")])
    /\ last.out.outcome = "RuntimeError"
    /\ last.status = 422
    /\ Cardinality(DOMAIN rows) = nextId
    /\ nextId > 0

----------------------------------------------------------------------------
(* The DELETE endpoints, served one request after the other (SpecDelete) *)

C8_Step ==
    /\ \A key \in Credentials, confirm \in Confirmations :
          LET status == delete_all_transactions_count(key, confirm)
          IN  /\ confirm # "DELETE_ALL" => status # 200
              /\ (confirm # "DELETE_ALL" /\ key = serverKey) => status = 400
              /\ (confirm = "DELETE_ALL" /\ key = serverKey /\ dbOk) => status = 200
    /\ (pc[1] = "idle" /\ last'.op = "delete_all" /\ last'.status # 200)
          => rows' = rows
    /\ (pc[1] = "delete_all" /\ pc'[1] = "idle" /\ last'.status = 200)
          => (rows' = NoRows /\ last'.n = Cardinality(DOMAIN rows))

\* C8: DeleteAll with a confirmation other than DELETE_ALL fails (400 for the
\* caller with the valid key) and leaves the rows; with DELETE_ALL and no other
\* request in between it empties the table and reports the number of rows that
\* were there just before
C8_DeleteAllConfirmed == [][C8_Step]_vars

\* DeleteAll has just wiped the two rows ingested and reported 2
C8_Witness ==
    /\ last.op = "delete_all"
    /\ last.in = "DELETE_ALL"
    /\ last.status = 200
    /\ last.n = 2
    /\ nextId = 2
    /\ rows = NoRows

C9_Step ==
    /\ \A transaction_id \in Ids \ DOMAIN rows :
          (serverKey # "" /\ dbOk)
              => delete_transaction_select(serverKey, transaction_id) = 404
    /\ (pc[1] = "idle" /\ last'.op = "delete" /\ last'.status = 404)
          => (/\ rows' = rows
              /\ last'.id \notin DOMAIN rows'
              /\ \A transaction_id \in Ids :
                    (transaction_id = last'.id /\ dbOk')
                        => delete_transaction_select(serverKey, transaction_id)' = 404)

\* C9: DeleteById on an id that is not stored answers 404, not the 500 of a
\* failure, leaves the rows as they are, and answers 404 again when repeated
C9_DeleteAbsentNotFound == [][C9_Step]_vars

\* the delete of an id that an earlier delete had removed was answered 404,
\* with another row still stored
C9_Witness ==
    /\ last.op = "delete"
    /\ last.status = 404
    /\ deleted[last.id] = 1
    /\ last.id \notin DOMAIN rows
    /\ rows # NoRows

----------------------------------------------------------------------------
(* The DELETE endpoints under concurrent requests (SpecConc) *)

\* C6: of the callers deleting one id, exactly one is answered "deleted"
C6_OneDeleteSucceeds == \A id \in Ids : deleted[id] <= 1

C7_Step ==
    \A p \in Workers :
        (pc[p] = "delete_all" /\ pc'[p] = "idle" /\ last'.status = 200)
            => last'.n >= Cardinality(DOMAIN rows)

\* C7: the rows DeleteAll removes are all in the count it reports, ingests
\* running at the same time included
C7_DeleteAllCountsRemoved == [][C7_Step]_vars

----------------------------------------------------------------------------
(* ingest_batch_from_yaml (SpecBatch) *)

\* what the item gives under the Spanish key, else under the English one
ItemField(item, spanish_key, english_key) ==
    IF Given(item, spanish_key) THEN item[spanish_key] ELSE Get(item, english_key)

\* the item does not validate: no amount above 0, or a currency not listed
ItemFails(item) ==
    LET amount == ItemField(item, "monto", "amount")
        currency == ItemField(item, "moneda", "currency")
    IN  \/ ~(amount.t = "num" /\ amount.n > 0)
        \/ currency.t = "str" /\ currency.s \notin Currencies \cup {""}

\* the inserts of the items that validate can succeed: the client has the
\* server's key and the store works
InsertsSucceed == cli.key = serverKey /\ serverKey # "" /\ dbOk

C10_Step ==
    (cli.pc = "batch" /\ cli' # cli) =>
        LET i == cli.i
            N == Len(cli.transactions)
            item == cli.transactions[i]
            results == IF cli'.pc = "batch" THEN cli'.results ELSE last'.out.results
            K == Cardinality({j \in 1..N : ItemFails(cli.transactions[j])})
            failed == {j \in 1..N : ~results[j].success}
        IN  /\ Len(results) = i
            /\ SubSeq(results, 1, i - 1) = cli.results
            /\ results[i].index = i
            /\ ItemFails(item) => (~results[i].success /\ rows' = rows)
            /\ (~ItemFails(item) /\ InsertsSucceed) => results[i].success
            /\ Cardinality(DOMAIN rows') =
                  Cardinality(DOMAIN rows) + (IF results[i].success THEN 1 ELSE 0)
            /\ i < N => (cli'.pc = "batch" /\ cli'.i = i + 1)
            /\ i = N => (/\ cli'.pc = "idle"
                         /\ last'.op = "batch"
                         /\ Len(results) = N
                         /\ \A j \in 1..N : results[j].index = j
                         /\ (\A j \in 1..N : ItemFails(cli.transactions[j])
                                               \/ results[j].success)
                               => (/\ Cardinality(failed) = K
                                   /\ Cardinality((1..N) \ failed) = N - K
                                   /\ Cardinality(DOMAIN rows') = cli.before + N - K))

\* C10: a batch of N items of which K do not validate, the other inserts
\* succeeding, goes on after each failure and returns N outcomes numbered in
\* input order, K failed and N - K successful, and the row count grows by N - K
C10_BatchOutcomes == [][C10_Step]_vars

\* a batch of two returned a failure for its first item (answered 422) and a
\* success for its second, whose row is stored
C10_Witness ==
    /\ last.op = "batch"
    /\ last.n = 2
    /\ ~last.out.results[1].success
    /\ last.out.results[1].status = 422
    /\ last.out.results[2].success
    /\ last.out.results[2].id \in DOMAIN rows

----------------------------------------------------------------------------
(* The shapes of a batch document (SpecBatch) *)

\* the document is a sequence of mappings, a mapping holding a sequence under
\* a collection key, or a mapping of its own, and it is not empty
HasContent(doc) ==
    \/ doc.kind = "list" /\ doc.items # <<>>
    \/ doc.kind = "map" /\ doc.seqkey # ""
    \/ doc.kind = "map" /\ doc.seqkey = "" /\ DOMAIN doc.map # {}

\* the mappings of the sequence, loaded, in the order of the document
Loaded(items) == [i \in 1..Len(items) |-> LoadMap(items[i])]

C11_Step ==
    /\ \A doc \in BatchDocs :
          LET b == BatchTransactions(doc)
          IN  /\ (doc.kind = "list" /\ doc.items # <<>>)
                    => (b.ok /\ b.transactions = Loaded(doc.items))
              /\ (doc.kind = "map" /\ doc.seqkey \in {"transacciones", "transactions"})
                    => (b.ok /\ b.transactions = Loaded(doc.items))
              /\ (doc.kind = "map" /\ doc.seqkey = ""
                                   /\ DOMAIN doc.map \cap {"monto", "amount"} # {})
                    => (b.ok /\ b.transactions = <<LoadMap(doc.map)>>)
              /\ (doc.kind = "map" /\ doc.seqkey = "" /\ DOMAIN doc.map # {}
                                   /\ DOMAIN doc.map \cap {"monto", "amount"} = {})
                    => (~b.ok /\ b.error = "format")
              /\ doc.kind = "scalar" => (~b.ok /\ b.error = "format")
              /\ ~HasContent(doc) /\ doc.kind # "scalar"
                    => (~b.ok /\ b.error = "empty")
    /\ (cli.pc = "idle" /\ cli'.pc = "batch")
          => (/\ cli'.i = 1
              /\ cli'.results = <<>>
              /\ \E doc \in BatchDocs :
                    /\ BatchTransactions(doc).ok
                    /\ cli'.transactions = BatchTransactions(doc).transactions
              /\ rows' = rows)
    /\ (cli.pc = "idle" /\ last'.op = "batch" /\ last' # last)
          => (/\ rows' = rows
              /\ nextId' = nextId
              /\ cli' = cli
              /\ last'.out.results = <<>>)
    /\ (cli.pc = "batch" /\ cli'.pc = "batch" /\ cli' # cli)
          => (cli'.transactions = cli.transactions /\ cli'.i = cli.i + 1)

----------------------------------------------------------------------------
(* The two normalizers (SpecNorm) *)

\* the value the mapping gives for the i-th field: that of the Spanish key
\* when present and not null, else that of the English key when present and
\* not null, else none
FirstNonNull(data, i) ==
    IF Given(data, field_mapping[i][1]) THEN data[field_mapping[i][1]]
    ELSE IF Given(data, field_mapping[i][2]) THEN data[field_mapping[i][2]]
    ELSE Absent

TextKeys == {"currency", "expense_type", "payment_method", "money_source",
             "description", "category", "notes", "converted_currency", "date"}

\* C12: for every field, convert_yaml_to_json gives the value of the Spanish
\* key when it is present and not null, otherwise that of the English key when
\* it is present and not null: a text as it is, a monetary value as a number
C12_SpanishThenEnglish ==
    (chk.fn = "yaml_output" /\ chk.out.ok) =>
        \A i \in 1..Len(field_mapping) :
            LET english_key == field_mapping[i][2]
                value == FirstNonNull(LoadMap(chk.in), i)
                json == chk.out.json
            IN  (value.t # "absent" /\ english_key \in TextKeys \cup MoneyFields)
                    => /\ english_key \in DOMAIN json
                       /\ english_key \in TextKeys => json[english_key] = value
                       /\ english_key \in MoneyFields
                             => json[english_key] = Num(float(value).n)

\* a key of the set carries, in the loaded mapping or row, a value that is
\* not null and not the empty string
Carries(data, keys) ==
    \E k \in keys \cap DOMAIN data : data[k].t # "null" /\ data[k] # Str("")

\* the record has a currency string and a boolean is_income, ARS when the
\* input carries no currency and false when it carries no income flag
DefaultsApplied(data, record) ==
    /\ "currency" \in DOMAIN record /\ record["currency"].t = "str"
    /\ "is_income" \in DOMAIN record /\ record["is_income"].t = "bool"
    /\ ~Carries(data, {"moneda", "currency"}) => record["currency"] = Str("ARS")
    /\ ~Carries(data, {"es_ingreso", "is_income"}) => record["is_income"] = Bool(FALSE)

\* C13: every record convert_yaml_to_json and convert_csv_to_sql_format
\* return has a currency string, 'ARS' when no currency key carries a
\* non-null, non-empty value, and a boolean is_income, false when no income
\* key carries a value
C13_Defaults ==
    /\ (chk.fn = "yaml_output" /\ chk.out.ok)
          => DefaultsApplied(LoadMap(chk.in), chk.out.json)
    /\ (chk.fn = "csv_output" /\ chk.out.ok)
          => DefaultsApplied(chk.in, chk.out.row)

\* the value reads, in any letter case, as 'true', '1' or 'yes'
ReadsTrue(v) ==
    CASE v.t = "str"  -> LowerText(v.s) \in {"true", "1", "yes"}
      [] v.t = "bool" -> v.n = 1
      [] v.t = "num"  -> v.n = 1
      [] OTHER        -> FALSE

\* the record's is_income is true exactly when the one income key of the
\* input reads as true
IncomeRecognized(data, record) ==
    \A k \in {"es_ingreso", "is_income"} :
        DOMAIN data \cap {"es_ingreso", "is_income"} = {k}
            => record["is_income"] = Bool(ReadsTrue(data[k]))

\* C14: both converters give is_income = true for the values 'true', '1' and
\* 'yes' in any letter case and is_income = false for every other value,
\* 'false', '0', 'no' and the empty string included
C14_IncomeFlag ==
    /\ (chk.fn = "yaml_output" /\ chk.out.ok)
          => IncomeRecognized(LoadMap(chk.in), chk.out.json)
    /\ (chk.fn = "csv_output" /\ chk.out.ok)
          => IncomeRecognized(chk.in, chk.out.row)

\* the key is given a value that float() does not take
Uncoercible(data, k) ==
    k \in DOMAIN data /\ data[k].t = "str" /\ data[k].s # "" /\ ~float(data[k]).ok

\* C15: when the value of a monetary field cannot be coerced to a number,
\* both converters fail with an error that names the field, and never return
\* a record without the field or with the field null
C15_MoneyCoercion ==
    /\ chk.fn = "yaml_output" =>
          \A i \in 1..Len(field_mapping) :
              (/\ field_mapping[i][2] \in MoneyFields
               /\ \E k \in {field_mapping[i][1], field_mapping[i][2]} :
                     Uncoercible(LoadMap(chk.in), k))
                  => (~chk.out.ok /\ field_mapping[i][2] \in ErrorNames(chk.out.error))
    /\ chk.fn = "csv_output" =>
          \A i \in 1..Len(csv_mapping) :
              (csv_mapping[i][2] \in MoneyFields /\ Uncoercible(chk.in, csv_mapping[i][1]))
                  => (~chk.out.ok /\ csv_mapping[i][2] \in CsvErrorNames(chk.out.error))

\* the amount the input gives: the number its first amount key with a value
\* coerces to, if any
AmountGiven(data, keys) ==
    LET given == {k \in keys \cap DOMAIN data :
                    data[k].t # "null" /\ data[k] # Str("") /\ float(data[k]).ok}
    IN  IF "monto" \in given THEN <<float(data["monto"]).n>>
        ELSE IF "amount" \in given THEN <<float(data["amount"]).n>>
        ELSE <<>>

\* the converter fails on an input without an amount key and on one whose
\* amount is zero or negative, and an amount it returns is above 0
AmountChecked(data, keys, ok, record) ==
    /\ keys \cap DOMAIN data = {} => ~ok
    /\ (AmountGiven(data, keys) # <<>> /\ AmountGiven(data, keys)[1] <= 0) => ~ok
    /\ ok => (record["amount"].t = "num" /\ record["amount"].n > 0)

\* C16: both converters fail when the input has no amount key or its amount
\* coerces to a value <= 0, and never return a record whose amount is <= 0
C16_AmountPositive ==
    /\ chk.fn = "yaml_output"
          => AmountChecked(LoadMap(chk.in), {"monto", "amount"}, chk.out.ok, chk.out.json)
    /\ chk.fn = "csv_output"
          => AmountChecked(chk.in, {"monto"}, chk.out.ok, chk.out.row)

\* the keys of the input that feed the field of the record
AliasesOf(mapping, field) ==
    {mapping[i][1] : i \in {j \in 1..Len(mapping) : mapping[j][2] = field}}
        \cup {field}

\* no field of the record is an empty string, and every field with a value,
\* currency and is_income apart, has a value in the input
OnlyGivenFields(mapping, data, record) ==
    \A field \in DOMAIN record :
        /\ record[field] # Str("")
        /\ (field \notin {"currency", "is_income"} /\ record[field].t # "null")
              => Carries(data, AliasesOf(mapping, field))

\* C17: in every record the converters return, an optional field that was
\* not supplied or was supplied as an empty string is absent or null, never
\* an empty string, and no field but currency and is_income has a value that
\* the input did not give
C17_NoEmptyStrings ==
    /\ (chk.fn = "yaml_output" /\ chk.out.ok)
          => OnlyGivenFields(field_mapping, LoadMap(chk.in), chk.out.json)
    /\ (chk.fn = "csv_output" /\ chk.out.ok)
          => OnlyGivenFields(csv_mapping, chk.in, chk.out.row)

----------------------------------------------------------------------------
(* The currencies of the stored rows (SpecCurrency) *)

\* the body names a currency or a converted currency outside the set, the
\* empty string included
CurrencyUnlisted(body) ==
    \E f \in {"currency", "converted_currency"} :
        Given(body, f) /\ ~(body[f].t = "str" /\ body[f].s \in Currencies)

\* C18: every stored row has a currency of the set and, when it has a
\* converted currency, one of the set; an ingest naming any other currency or
\* converted currency, the empty string included, is refused as invalid (422
\* for the caller with the valid key) and stores no row
C18_CurrencyListed ==
    /\ \A id \in DOMAIN rows :
          /\ rows[id].currency.t = "str" /\ rows[id].currency.s \in Currencies
          /\ rows[id].converted_currency.t # "null"
                => (/\ rows[id].converted_currency.t = "str"
                    /\ rows[id].converted_currency.s \in Currencies)
    /\ \A key \in Credentials, body \in CurrencyBodies, now \in Times :
          CurrencyUnlisted(body)
              => LET r == ingest_transaction(key, body, now)
                 IN  /\ r.status # 200
                     /\ r.table = rows
                     /\ key = serverKey => r.status = 422

----------------------------------------------------------------------------
(* The rows of the gateway's store and of the local table (SpecMig) *)

\* C19: every row stored by the gateway, and every row of the local table
\* that create_local_sqlite_from_csv fills, has an amount above 0
C19_StoredAmountPositive ==
    /\ \A id \in DOMAIN rows :
          rows[id].amount.t = "num" /\ rows[id].amount.n > 0
    /\ \A j \in 1..Len(mig.table) :
          mig.table[j].amount.t = "num" /\ mig.table[j].amount.n > 0

\* C20: every row of the gateway's store has its id, the ids handed out never
\* being handed out again, and every row of the local table has an id that no
\* other row of the table has, the rows of CSV lines without an id included
C20_IdsUnique ==
    /\ \A id \in DOMAIN rows : rows[id].id = id /\ id <= nextId
    /\ \A id \in Ids : deleted[id] > 0 => id <= nextId
    /\ \A j \in 1..Len(mig.table) :
          /\ mig.table[j].id.t = "str" /\ mig.table[j].id.s # ""
          /\ \A k \in 1..Len(mig.table) :
                mig.table[k].id = mig.table[j].id => k = j

----------------------------------------------------------------------------
(* The first word of a query, and the texts the guards accept (SpecGuard) *)

\* the characters that continue a word
WordChars ==
    DOMAIN UpperOf \cup DOMAIN LowerOf \cup {Digits[i] : i \in DOMAIN Digits} \cup {"_"}

\* the first word of the text, after leading whitespace, is SELECT in either
\* case and ends there
FirstWordIsSelect(text) ==
    \E k \in 0..Len(text) :
        /\ \A i \in 1..k : text[i] \in Whitespace
        /\ Len(text) >= k + 6
        /\ \A j \in 1..6 : UpperChar(text[k + j]) = kSELECT[j]
        /\ Len(text) > k + 6 => text[k + 7] \notin WordChars

\* C26: both guards accept a text only when its first word, trimmed and in
\* upper case, is exactly SELECT; a longer word that begins with the letters
\* SELECT is rejected
C26_FirstWordExactlySelect ==
    (chk.fn = "checked" /\ ~FirstWordIsSelect(chk.sql))
        => (~chk.server.ok /\ ~chk.client)

\* C27: both guards accept exactly the texts that, trimmed and with letter
\* case ignored, start with SELECT and hold none of the eleven deny-listed
\* words anywhere; a lower-case text with surrounding whitespace is among them
C27_AcceptedExactly ==
    chk.fn = "checked" =>
        LET passes == /\ StartsWithSelect(chk.sql)
                      /\ ~\E word \in DenyListed : HoldsWord(chk.sql, word)
        IN  /\ chk.server.ok <=> passes
            /\ chk.client <=> passes
            /\ chk.server.ok => chk.server.value = chk.sql

\* a text in mixed case with whitespace before it, a FROM clause and a
\* trailing semicolon was accepted by both guards as it was submitted
C27_Witness ==
    /\ chk.fn = "checked"
    /\ chk.sql = <<"\n", "\t", " ">> \o <<"S","e","L","e","C","t">>
                    \o <<" ","*"," ","F","R","O","M"," ","t">> \o <<";"," ">>
    /\ chk.server.ok
    /\ chk.server.value = chk.sql
    /\ chk.client

\* C29: is_safe_query returns true exactly when QueryRequest.validate_sql
\* accepts, whatever the text
C29_GuardsAgree ==
    chk.fn = "checked" => (chk.client <=> chk.server.ok)

\* a text holding REPLACE inside a longer word, in mixed case, was rejected by
\* the client's guard and by the server's, which named the word
C29_Witness ==
    /\ chk.fn = "checked"
    /\ chk.sql = kSELECT \o <<" ", "x">> \o mixed(kREPLACE) \o <<"y">>
    /\ ~chk.client
    /\ chk.server.error = "REPLACE"

----------------------------------------------------------------------------
(* Normalizing twice (SpecNorm) *)

\* C30: when convert_yaml_to_json succeeds, dumping its record to YAML and
\* converting that again succeeds with the same record; and converting the
\* dump of a loaded item, as ingest_batch_from_yaml does, gives what converting
\* the item's own text gives
C30_NormalizeTwice ==
    chk.fn = "yaml_output" =>
        LET again == convert_yaml_to_json(YamlMap(DumpMap(chk.out.json)))
            item == LoadMap(chk.in)
            dumped == convert_yaml_to_json(YamlMap(DumpMap(item)))
        IN  /\ chk.out.ok => (again.ok /\ again.json = chk.out.json)
            /\ dumped = chk.out

\* a record with an empty description, a null currency and an income flag
\* read from a quoted text was returned, and is the same when converted again
C30_Witness ==
    /\ chk.fn = "yaml_output"
    /\ chk.out.ok
    /\ "description" \in DOMAIN chk.out.json
    /\ chk.out.json["description"] = Str("")
    /\ chk.out.json["currency"] = Null
    /\ "es_ingreso" \in DOMAIN chk.in
    /\ chk.in["es_ingreso"] = Quoted("false")
    /\ convert_yaml_to_json(YamlMap(DumpMap(chk.out.json))).json = chk.out.json

----------------------------------------------------------------------------
(* GET /stats and GET /transactions/recent (SpecReads) *)

\* the sum of the amounts of the rows with these ids, counted unit by unit
AmountUnits(S) ==
    Cardinality(UNION {{<<id, k>> : k \in 1..rows[id].amount.n} : id \in S})

\* C22: whatever the stored rows, Stats gives total_income and total_expenses
\* as the sums of amount over the rows with is_income true and false, balance
\* as their difference, the two counts as the numbers of such rows and the
\* total count as their sum, the number of rows; all six are 0 on an empty
\* store
C22_StatsAggregates ==
    \A key \in Credentials :
        LET r == get_stats(key)
            income == {id \in DOMAIN rows : rows[id].is_income = 1}
            expenses == {id \in DOMAIN rows : rows[id].is_income = 0}
        IN  /\ (key = serverKey /\ key # "" /\ dbOk) => r.status = 200
            /\ r.status = 200 =>
                  /\ r.stats.total_income = AmountUnits(income)
                  /\ r.stats.total_expenses = AmountUnits(expenses)
                  /\ r.stats.balance = r.stats.total_income - r.stats.total_expenses
                  /\ r.stats.income_count = Cardinality(income)
                  /\ r.stats.expense_count = Cardinality(expenses)
                  /\ r.stats.total_transactions
                        = r.stats.income_count + r.stats.expense_count
                  /\ r.stats.total_transactions = Cardinality(DOMAIN rows)
                  /\ rows = NoRows => r.stats = NoStats

\* Stats over an income of 2 and an expense of 1 answered 2, 1, a balance of 1
\* and the counts 1, 1 and 2
C22_Witness ==
    /\ last.op = "stats"
    /\ last.status = 200
    /\ Cardinality(DOMAIN rows) = 2
    /\ last.out = [total_income |-> 2, total_expenses |-> 1, balance |-> 1,
                   total_transactions |-> 2, expense_count |-> 1, income_count |-> 1]
    /\ last.out = StatsResponse(rows)

\* C28: for every limit the endpoint accepts, the answer of
\* recent-transactions lists at most limit transactions, by date descending,
\* and its count is the number of transactions listed (a limit below 0 being
\* read as one that lets no transaction through)
C28_RecentAtMostLimit ==
    \A key \in Credentials, limit \in Limits :
        \A r \in get_recent_transactions(key, limit) :
            r.status = 200 =>
                /\ Len(r.transactions) <= (IF limit < 0 THEN 0 ELSE limit)
                /\ r.count = Len(r.transactions)
                /\ \A i, j \in DOMAIN r.transactions :
                      i < j => DateRank(r.transactions[i].date)
                                  >= DateRank(r.transactions[j].date)

----------------------------------------------------------------------------
(* The credential (SpecAuth) *)

\* the credential is not the server's key, or the server has no key
Unauthorized(key) == key # serverKey \/ serverKey = ""

\* C21: ingest, query, stats, recent-transactions, delete-one and delete-all
\* are served only to the caller whose credential equals the server's key; a
\* missing or different credential is rejected without ledger data and without
\* a change of the store, and a server without a key rejects every credential,
\* the empty one included
C21_CredentialRequired ==
    /\ \A key \in AuthKeys :
          Unauthorized(key) =>
              /\ \A body \in PlainBodies, now \in Times :
                    LET r == ingest_transaction(key, body, now)
                    IN  r.status \in {401, 422, 500} /\ r.table = rows /\ r.id = 0
              /\ LET r == execute_query(key, tSELECT_ALL)
                 IN  /\ r.status \in {401, 422, 500}
                     /\ r.executed = <<>> /\ r.result = {} /\ r.table = rows
              /\ LET r == get_stats(key)
                 IN  r.status \in {401, 422, 500} /\ r.stats = NoStats
              /\ \A limit \in Limits :
                    \A r \in get_recent_transactions(key, limit) :
                        r.status \in {401, 422, 500} /\ r.transactions = <<>>
              /\ \A transaction_id \in Ids :
                    delete_transaction_select(key, transaction_id) \in {401, 422, 500}
              /\ \A confirm \in Confirmations :
                    delete_all_transactions_count(key, confirm) \in {401, 422, 500}
    /\ (last.op \in {"ingest", "query", "stats", "recent", "delete", "delete_all"}
        /\ last.status \in {200, 400, 404})
          => (last.key = serverKey /\ serverKey # "")
    /\ serverKey = "" => (rows = NoRows /\ last.status \in {0, 422, 500})

\* a query with a credential that is not the server's key was answered 401
\* without a row, over a store that holds rows
C21_Witness ==
    /\ last.op = "query"
    /\ last.key = "bad"
    /\ last.status = 401
    /\ last.out.result = {}
    /\ last.out.executed = <<>>
    /\ rows # NoRows

----------------------------------------------------------------------------
(* What the operations leave alone, and a store that fails (SpecFrame) *)

C24_Step ==
    /\ \A id \in DOMAIN rows \cap DOMAIN rows' : rows'[id] = rows[id]
    /\ (pc[1] = "idle" /\ last'.op = "ingest" /\ last'.status = 200 /\ last' # last)
          => (/\ last'.id \notin DOMAIN rows
              /\ DOMAIN rows' = DOMAIN rows \cup {last'.id}
              /\ rows'[last'.id].id = last'.id)
    /\ (pc[1] = "delete" /\ pc'[1] = "idle" /\ last'.status = 200)
          => DOMAIN rows' = DOMAIN rows \ {last'.id}
    /\ (pc[1] = "idle" /\ last'.op \in {"query", "stats", "recent"})
          => rows' = rows

\* C24: no operation changes a field of a stored row: a successful Ingest
\* adds one row under a new id, a successful DeleteById removes the row of
\* that id, both leaving every other row as it was, and Query, Stats and
\* recent-transactions leave all rows as they were
C24_RowsNeverChanged == [][C24_Step]_vars

\* the delete of one of two stored rows that differ was answered 200, and the
\* other row is stored
C24_Witness ==
    /\ last.op = "delete"
    /\ last.status = 200
    /\ last.id = 1
    /\ DOMAIN rows = {2}
    /\ rows[2].is_income = 1
    /\ rows[2].date = Str("2026-01-02")

C25_Step ==
    /\ \A body \in DatedBodies, now \in Times :
          LET r == ingest_transaction(serverKey, body, now)
          IN  /\ ~dbOk => r.status # 200
              /\ r.status # 200 => r.table = rows
              /\ (~dbOk /\ serverKey # "") => r.status = 500
    /\ (~dbOk /\ ~dbOk')
          => (/\ rows' = rows
              /\ (last' # last /\ last'.op \in {"ingest", "delete", "delete_all"})
                    => last'.status = 500)
    /\ (pc[1] \in {"delete", "delete_all"} /\ pc'[1] = "idle" /\ ~dbOk)
          => (last'.status = 500 /\ rows' = rows)

\* C25: while the store fails, an Ingest, a DeleteById and a DeleteAll are
\* answered with a failure, never a success, and leave the rows as they were:
\* no row of the failed ingest is stored and none is removed by the failed
\* delete
C25_StoreFailureReported == [][C25_Step]_vars

\* a delete found its row, the store failed before the DELETE, the caller was
\* answered 500 and the row is still stored
C25_Witness ==
    /\ last.op = "delete"
    /\ last.status = 500
    /\ last.id \in DOMAIN rows
    /\ ~dbOk

----------------------------------------------------------------------------
(* The record sent again after a timeout (SpecRetry) *)

\* the rows stored since the first attempt of the command last answered
RowsOfLast == {id \in DOMAIN rows : id > last.out.before}

\* C23: a record submitted again after a timeout, the first attempt having
\* taken effect, leaves at most one row for it in the store
C23_AtMostOneRow ==
    (last.op = "gastar" /\ last.out.retry) => Cardinality(RowsOfLast) <= 1

====
